---- MODULE Spec2Model ----
(***************************************************************************)
(* Model of the python_ai_sis_assistant backend: the conversation use case *)
(* (ConversationManager over MemoryConversationRepository and the agent    *)
(* registry), the chat HTTP handler, and the HTTP middleware stack         *)
(* (LoggingMiddleware around RateLimitMiddleware).                         *)
(*                                                                         *)
(* Python objects are modelled with a heap: a ConversationContext is a     *)
(* heap cell and every variable or dict slot that holds one holds a        *)
(* reference (an index into the heap), so aliasing between the store and   *)
(* the coroutines' local variables is explicit.                            *)
(***************************************************************************)
EXTENDS Integers, Sequences, FiniteSets, TLC

\* ------------------------------------------------------------------ bounds
MaxCalls == 3
MaxConv == 2
MaxHistoryLimit == 2
MaxRate == 2
MaxTime == 60
MaxRequests == 3
MaxRepoOps == 6

\* --------------------------------------------------------- program constants
window_seconds == 60
rate_limit_requests == 60
DEFAULT_HISTORY_LIMIT == 50

None == 0

COORDINATOR == "coordinator"
LOCAL_ASSISTANT == "local_assistant"
WEB_SEARCH == "web_search"
AgentType == {COORDINATOR, LOCAL_ASSISTANT, WEB_SEARCH}

ACTIVE == "active"
PENDING_AGENT_SWITCH == "pending_agent_switch"
COMPLETED == "completed"
ERROR == "error"
ConversationState == {ACTIVE, PENDING_AGENT_SWITCH, COMPLETED, ERROR}

USER == "user"
ASSISTANT == "assistant"

\* ------------------------------------------------------------------ inputs
\* Keyword lists of the coordinator (peja_coordinator.py should_switch_agent).
web_search_keywords ==
    {"busca", "búsqueda", "buscar", "información sobre", "qué es",
     "documentación", "manual", "tutorial", "guía", "aprende",
     "internet", "web", "online", "google"}
local_keywords ==
    {"dispositivo", "sensor", "temperatura", "humedad", "riego",
     "estado del sistema", "datos", "configuración", "alarma",
     "encender", "apagar", "monitoreo", "estado"}
explicit_local_phrases == {"asistente local", "sistema local"}
explicit_web_phrases == {"buscar en internet", "búsqueda web"}

\* str.lower() on one character, for the letters the message texts use.
LowerChar(c) ==
    CASE c = "A" -> "a" [] c = "B" -> "b" [] c = "C" -> "c" [] c = "D" -> "d"
      [] c = "E" -> "e" [] c = "F" -> "f" [] c = "G" -> "g" [] c = "H" -> "h"
      [] c = "I" -> "i" [] c = "J" -> "j" [] c = "K" -> "k" [] c = "L" -> "l"
      [] c = "M" -> "m" [] c = "N" -> "n" [] c = "O" -> "o" [] c = "P" -> "p"
      [] c = "Q" -> "q" [] c = "R" -> "r" [] c = "S" -> "s" [] c = "T" -> "t"
      [] c = "U" -> "u" [] c = "V" -> "v" [] c = "W" -> "w" [] c = "X" -> "x"
      [] c = "Y" -> "y" [] c = "Z" -> "z" [] c = "Á" -> "á" [] c = "É" -> "é"
      [] c = "Í" -> "í" [] c = "Ó" -> "ó" [] c = "Ú" -> "ú" [] c = "Ñ" -> "ñ"
      [] c = "Ü" -> "ü"
      [] OTHER -> c

\* str.lower()
RECURSIVE lower(_)
lower(s) ==
    IF Len(s) = 0 THEN ""
    ELSE LowerChar(SubSeq(s, 1, 1)) \o lower(SubSeq(s, 2, Len(s)))

\* Python's `k in s` on strings: k occurs in s as a substring.
Contains(s, k) ==
    \E i \in 1..(Len(s) - Len(k) + 1) : SubSeq(s, i, i + Len(k) - 1) = k

\* f as an explicit table: TLC evaluates a function expression at each
\* application, and the table only once.
Tabulated(f) == f @@ [x \in {} |-> x]

\* Message texts of the chat use case.
Contents == {"hola", "busca un manual", "como esta el sensor"}

\* Message texts handed to the agents and the routing heuristics directly.
AgentContents ==
    Contents \cup
    {"Busca datos del SENSOR", "quiero el asistente local", "búsqueda web",
     "estado del dispositivo", "gracias por todo"}

\* Keyword list of LocalAssistantAgent.can_handle_request.
local_assistant_keywords ==
    {"dispositivo", "sensor", "temperatura", "humedad", "riego",
     "estado", "datos", "sistema", "configuración", "alarma",
     "encender", "apagar", "monitoreo"}

\* Keyword list of WebSearchAgent.can_handle_request.
web_search_agent_keywords ==
    {"busca", "búsqueda", "buscar", "información sobre", "qué es",
     "documentación", "manual", "tutorial", "guía", "aprende",
     "internet", "web", "online", "google"}

\* Message texts for the comparison of the coordinator's hand-off decision
\* with the specialists' can_handle_request: one fragment, or two fragments
\* separated by a blank.
HandOffFragments ==
    {"hola", "Busca", "un manual", "el SENSOR", "quiero el asistente local",
     "el sistema local", "búsqueda web", "estado del sistema", "gracias",
     "Riego", "Asistente Local por favor", "GOOGLE"}
HandOffContents ==
    HandOffFragments \cup {a \o " " \o b : a, b \in HandOffFragments}

\* The phrases of the agents' lists that occur in content.lower().
MatchedPhrases(content) ==
    {k \in web_search_keywords \cup local_keywords \cup explicit_local_phrases
              \cup explicit_web_phrases \cup local_assistant_keywords
              \cup web_search_agent_keywords : Contains(lower(content), k)}

\* MatchedPhrases of every message text.
PhrasesOf ==
    Tabulated([content \in AgentContents \cup HandOffContents |->
                  MatchedPhrases(content)])

PhrasesIn(content) == PhrasesOf[content]

\* An id no uuid4() call of the model ever returns.
UnknownId == MaxConv + 1

VARIABLES
    agents,         \* InMemoryAgentRegistry._agents: the registered agent types
    started,        \* lifespan startup has completed
    heap,           \* ConversationContext objects, by reference
    conversations,  \* MemoryConversationRepository._conversations: id -> reference
    calls,          \* the use-case calls handed over so far, with their locals
    uuids,          \* number of message ids generated
    appended,       \* history: per conversation id, the messages appended, in order
    dropped,        \* history: per conversation id, how many messages reads cut off
    max_requests,   \* RateLimitMiddleware.max_requests
    requests,       \* RateLimitMiddleware.requests: client -> timestamps
    now,            \* time.time()
    accepted,       \* history: per client, timestamps of requests let through
    http,           \* the last request through the middleware stack and its outcome
    in_flight,      \* the requests suspended in call_next, by correlation id
    repo,           \* direct use of the repository: operations applied, the last one, history
    gemini,         \* GeminiClient._client and the outcome of the last call on the client
    agent_run,      \* the last process_message call made on an agent directly, and its result
    routing,        \* the last call on the AgentOrchestrator and its result
    health_req,     \* the last request to a health endpoint: the forced conditions and the body returned
    web_client,     \* the WebSearchClient: its key, the outbound calls made, the searches answered
    domain_entities,\* a Device and a ConversationContext entity, with the calls made on each
    device_refs,    \* ConversationContext.last_mentioned_devices, and the distinct names in order of their last mention
    device_clock,   \* a Device with the clock it reads: status, last_seen, updated_at, and the answer of the is_responsive call just made
    recent_run,     \* the last get_recent_messages call made directly: the list, the limit, and the lists returned
    wired_run,      \* the last turn of the web search agent on the Gemini client: the inputs, whether the query call failed, and the query searched for
    handoff_run,    \* last comparison of should_switch_agent with the specialists can_handle_request
    app             \* create_app(): whether it was called, what it raised, the routers it mounted

vars == <<agents, started, heap, conversations, calls, uuids, appended, dropped,
          max_requests, requests, now, accepted, http, in_flight, repo, gemini, agent_run, routing, health_req, web_client, domain_entities, device_refs, device_clock, recent_run, wired_run, handoff_run, app>>

chatVars == <<agents, started, heap, conversations, calls, uuids, appended, dropped>>
httpVars == <<max_requests, requests, now, accepted, http, in_flight>>
unitVars == <<gemini, agent_run, routing, health_req, web_client, domain_entities, device_refs, device_clock, recent_run, wired_run, handoff_run, app>>

\* ------------------------------------------------ domain/value_objects/conversation.py
create_user_message(content, id) ==
    [id |-> id, role |-> USER, content |-> content, agent_type |-> "none"]

create_assistant_message(content, agent_type, id) ==
    [id |-> id, role |-> ASSISTANT, content |-> content, agent_type |-> agent_type]

add_message_prepend(context, message) ==
    [context EXCEPT !.messages = << message >> \o @]

add_message(context, message) ==
    [context EXCEPT !.messages = Append(@, message)]

\* Python slice s[-limit:]
SliceFromMinus(s, limit) ==
    LET n == Len(s)
        start == IF limit = 0 THEN 0
                 ELSE IF limit > 0 THEN (IF n - limit > 0 THEN n - limit ELSE 0)
                 ELSE (IF -limit < n THEN -limit ELSE n)
    IN  SubSeq(s, start + 1, n)

get_recent_messages(context, limit) == SliceFromMinus(context.messages, limit)

switch_agent_pending(context, new_agent_type) ==
    [context EXCEPT !.current_agent_type = new_agent_type,
                    !.state = PENDING_AGENT_SWITCH]

switch_agent(context, new_agent_type) ==
    [context EXCEPT !.current_agent_type = new_agent_type]

NewContext(id) ==
    [conversation_id |-> id, state |-> ACTIVE,
     current_agent_type |-> COORDINATOR, messages |-> << >>]

\* ------------------------------- infrastructure/repositories/memory_conversation_repository.py
\* get_conversation returns the stored object itself (dict.get), not a copy.
get_conversation_copy(h, convs, id) ==
    IF id \in DOMAIN convs
    THEN [heap |-> Append(h, h[convs[id]]), ref |-> Len(h) + 1]
    ELSE [heap |-> h, ref |-> None]

get_conversation(h, convs, id) ==
    [heap |-> h, ref |-> IF id \in DOMAIN convs THEN convs[id] ELSE None]

save_conversation_not_stored(convs, id, ref) == convs

save_conversation(convs, id, ref) ==
    [k \in DOMAIN convs \cup {id} |-> IF k = id THEN ref ELSE convs[k]]

update_conversation(convs, id, ref) ==
    [k \in DOMAIN convs \cup {id} |-> IF k = id THEN ref ELSE convs[k]]

\* MemoryConversationRepository.delete_conversation: the store afterwards
delete_conversation(convs, id) == [k \in DOMAIN convs \ {id} |-> convs[k]]

\* MemoryConversationRepository.clear_all: the store afterwards
clear_all_conversations(convs) == << >>

\* MemoryConversationRepository.add_message: the heap and the store afterwards
repository_add_message_upsert(h, convs, id, message) ==
    LET got == get_conversation(h, convs, id)
    IN  IF got.ref # None
        THEN [heap |-> [got.heap EXCEPT ![got.ref] = add_message(@, message)],
              conversations |-> update_conversation(convs, id, got.ref)]
        ELSE [heap |-> Append(h, add_message(NewContext(id), message)),
              conversations |-> save_conversation(convs, id, Len(h) + 1)]

repository_add_message(h, convs, id, message) ==
    LET got == get_conversation(h, convs, id)
    IN  IF got.ref # None
        THEN [heap |-> [got.heap EXCEPT ![got.ref] = add_message(@, message)],
              conversations |-> update_conversation(convs,
                                    got.heap[got.ref].conversation_id, got.ref)]
        ELSE [heap |-> h, conversations |-> convs]

\* ------------------------------------ infrastructure/repositories/agent_registry.py
register_agent_overwriting(registry, agent_type) == {agent_type}

register_agent(registry, agent_type) == registry \cup {agent_type}

get_agent(registry, agent_type) ==
    IF agent_type \in registry THEN agent_type ELSE "none"

\* InMemoryAgentRegistry.clear_all: the registry afterwards
clear_all_agents(registry) == {}

\* ------------------------------------------ infrastructure/agents/peja_coordinator.py
should_switch_agent_local_first(content) ==
    LET content_lower == PhrasesIn(content)
    IN  IF content_lower \cap local_keywords # {} THEN LOCAL_ASSISTANT
        ELSE IF content_lower \cap web_search_keywords # {} THEN WEB_SEARCH
        ELSE IF content_lower \cap explicit_local_phrases # {} THEN LOCAL_ASSISTANT
        ELSE IF content_lower \cap explicit_web_phrases # {} THEN WEB_SEARCH
        ELSE "none"

should_switch_agent(content) ==
    LET content_lower == PhrasesIn(content)
    IN  IF content_lower \cap web_search_keywords # {} THEN WEB_SEARCH
        ELSE IF content_lower \cap local_keywords # {} THEN LOCAL_ASSISTANT
        ELSE IF content_lower \cap explicit_local_phrases # {} THEN LOCAL_ASSISTANT
        ELSE IF content_lower \cap explicit_web_phrases # {} THEN WEB_SEARCH
        ELSE "none"

\* The reply text is the LLM's text, or the agent's canned text when the
\* LLM port raises.
PejaProcessMessage(content, llm_ok) ==
    LET target_agent == should_switch_agent(content)
    IN  IF target_agent # "none"
        THEN [content |-> IF llm_ok THEN "llm" ELSE "routing_fallback",
              should_switch_agent |-> TRUE, target_agent_type |-> target_agent]
        ELSE [content |-> IF llm_ok THEN "llm" ELSE "direct_fallback",
              should_switch_agent |-> FALSE, target_agent_type |-> "none"]

\* infrastructure/agents/local_assistant.py, web_search_agent.py
SpecialistProcessMessage_handing_back(content, llm_ok) ==
    [content |-> IF llm_ok THEN "llm" ELSE "specialist_fallback",
     should_switch_agent |-> TRUE, target_agent_type |-> COORDINATOR]

SpecialistProcessMessage(content, llm_ok) ==
    [content |-> IF llm_ok THEN "llm" ELSE "specialist_fallback",
     should_switch_agent |-> FALSE, target_agent_type |-> "none"]

AgentProcessMessage(agent, content, llm_ok) ==
    IF agent = COORDINATOR THEN PejaProcessMessage(content, llm_ok)
    ELSE SpecialistProcessMessage(content, llm_ok)

\* ------------------------------------------------ usecases/conversation_manager.py
\* Lines 66-75 of process_message: the context after the agent has replied.
CompleteTurn_switch_first(context, agent, agent_response, id) ==
    LET switched == IF agent_response.should_switch_agent
                       /\ agent_response.target_agent_type # "none"
                    THEN switch_agent(context, agent_response.target_agent_type)
                    ELSE context
    IN  add_message(switched,
            create_assistant_message(agent_response.content,
                                     switched.current_agent_type, id))

CompleteTurn(context, agent, agent_response, id) ==
    LET replied == add_message(context,
                       create_assistant_message(agent_response.content, agent, id))
    IN  IF agent_response.should_switch_agent
           /\ agent_response.target_agent_type # "none"
        THEN switch_agent(replied, agent_response.target_agent_type)
        ELSE replied

\* Line 96 of get_conversation_history: context.messages = context.get_recent_messages(limit)
TruncateHistory_keeps_all(context, limit) == context

TruncateHistory(context, limit) ==
    [context EXCEPT !.messages = get_recent_messages(context, limit)]

\* Line 105 of end_conversation
EndContext_clears(context) == [context EXCEPT !.state = COMPLETED, !.messages = << >>]

EndContext(context) == [context EXCEPT !.state = COMPLETED]

\* ------------------------------------------ presentation/http/handlers/chat_handler.py
\* process_chat_message: ValueError -> 400, any other exception -> 500
ProcessChatStatus(outcome) ==
    IF outcome = "ok" THEN 200
    ELSE IF outcome \in {"ValueError_not_found", "ValueError_no_agent"} THEN 400
    ELSE 500

\* get_conversation_history / end_conversation: a falsy use-case result -> 404
LookupStatus(found) == IF found THEN 200 ELSE 404

\* ------------------------------------------------------------------ state
NoMessage == [id |-> 0, role |-> "none", content |-> "", agent_type |-> "none"]

NewCall(op, cid, content, limit) ==
    [op |-> op, conversation_id |-> cid, content |-> content, limit |-> limit,
     pc |-> "called", context |-> None, user_message |-> NoMessage,
     assistant_message |-> NoMessage, agent |-> "none", began |-> "none",
     outcome |-> "pending", status |-> 0,
     response_id |-> None, response_agent_type |-> "none", response_messages |-> << >>]

\* Conversation ids the client has received in a response.
ReturnedIds == {calls[t].response_id : t \in 1..Len(calls)} \ {None}

ClientIds == ReturnedIds \cup {UnknownId}

Limits == {1, MaxHistoryLimit, DEFAULT_HISTORY_LIMIT}

Log(log, id, message) ==
    [k \in DOMAIN log \cup {id} |->
        IF k \in DOMAIN log
        THEN (IF k = id THEN Append(log[k], message) ELSE log[k])
        ELSE << message >>]

NoRequest ==
    [seq |-> 0, path |-> "none", client_ip |-> "none", correlation_id |-> None,
     outcome |-> [kind |-> "none", status |-> 0, retry_after |-> 0, header |-> None]]

\* LLMResponse.tokens_used when it is None.
NoTokens == -1

NoLlmResponse == [content |-> "", tokens_used |-> NoTokens, error |-> FALSE]

\* No call on the LLM client yet.
NoLlmCall ==
    [op |-> "none", init_ok |-> TRUE, sdk |-> [kind |-> "none"],
     raised |-> FALSE, response |-> NoLlmResponse, healthy |-> FALSE]

\* No agent called directly yet.
NoAgentRun ==
    [agent |-> "none", content |-> "", llm |-> << >>, failing |-> {},
     search |-> [kind |-> "none"],
     result |-> [raised |-> FALSE, content |-> "", should_switch_agent |-> FALSE,
                 target_agent_type |-> "none"]]

\* No call on the orchestrator yet.
NoRouting ==
    [op |-> "none", content |-> "", agent_type |-> "none", preferred |-> "none",
     registered |-> {}, selected |-> "none", score |-> 0]

\* A response without a JSON body of the health handler.
NoBody == [status |-> "", message |-> "", components |-> << >>]

\* No request to a health endpoint yet.
NoHealthRequest ==
    [path |-> "none", missing |-> {}, logging_raises |-> FALSE, body |-> NoBody]

\* create_app() not called yet.
NoApp == [called |-> FALSE, raised |-> "none", middleware |-> << >>, routers |-> {}]

\* A WebSearchClient not constructed yet.
NoWebSearchClient ==
    [constructed |-> FALSE, api_key |-> "", closed |-> FALSE, outbound |-> 0,
     suspended |-> << >>, searches |-> << >>, fetches |-> << >>]

\* A Device and a ConversationContext as constructed: empty lists.
NewEntities ==
    [device |-> [sensor_data |-> << >>, calls |-> 0],
     context |-> [conversation_history |-> << >>, calls |-> 0]]

\* A ConversationContext nobody has mentioned a device to.
NoDeviceReferences == [last_mentioned_devices |-> << >>, mentioned |-> << >>]

\* A Device as constructed at time 0: status "unknown", last_seen None.
NewDeviceClock ==
    [now |-> 0, status |-> "unknown",
     last_seen |-> [set |-> FALSE, at |-> 0], updated_at |-> 0,
     online |-> [set |-> FALSE, at |-> 0],
     asked |-> [made |-> FALSE, timeout_minutes |-> 0, result |-> FALSE]]

\* No get_recent_messages call made yet.
NoRecentRun ==
    [made |-> FALSE, messages |-> << >>, limit |-> 0,
     returned |-> << >>, entity_returned |-> << >>, messages_after |-> << >>]

\* No turn of the web search agent on the Gemini client yet.
NoWiredRun ==
    [made |-> FALSE, content |-> "", llm_failed |-> FALSE, llm_raised |-> FALSE,
     searched_for |-> "", search_query |-> "", response_content |-> ""]

\* No hand-off decision compared yet.
NoHandOffRun ==
    [made |-> FALSE, content |-> "", target_agent |-> "none",
     local_can_handle |-> FALSE, web_can_handle |-> FALSE]

InitWith(limit) ==
    /\ agents = {}
    /\ started = FALSE
    /\ heap = << >>
    /\ conversations = << >>
    /\ calls = << >>
    /\ uuids = 0
    /\ appended = << >>
    /\ dropped = << >>
    /\ max_requests = limit
    /\ requests = << >>
    /\ now = 0
    /\ accepted = << >>
    /\ http = NoRequest
    /\ in_flight = {}
    /\ repo = [ops |-> 0, last |-> "none", found |-> FALSE,
               written |-> << >>, persisted |-> << >>]
    /\ gemini = [client |-> None, suspended |-> << >>, last |-> NoLlmCall]
    /\ agent_run = NoAgentRun
    /\ routing = NoRouting
    /\ health_req = NoHealthRequest
    /\ web_client = NoWebSearchClient
    /\ domain_entities = NewEntities
    /\ device_refs = NoDeviceReferences
    /\ device_clock = NewDeviceClock
    /\ recent_run = NoRecentRun
    /\ wired_run = NoWiredRun
    /\ handoff_run = NoHandOffRun
    /\ app = NoApp

Init == InitWith(rate_limit_requests)

\* app/lifespan.py _initialize_agents
Startup ==
    /\ ~started
    /\ agents = {}
    /\ agents' = register_agent(register_agent(register_agent(agents,
                      COORDINATOR), LOCAL_ASSISTANT), WEB_SEARCH)
    /\ started' = TRUE
    /\ UNCHANGED <<heap, conversations, calls, uuids, appended, dropped>>
    /\ UNCHANGED httpVars
    /\ UNCHANGED unitVars
    /\ UNCHANGED repo

\* The order in which _initialize_agents registers the agents.
registration_order == <<COORDINATOR, LOCAL_ASSISTANT, WEB_SEARCH>>

RECURSIVE RegisterFirst(_, _)
RegisterFirst(registry, k) ==
    IF k = 0 THEN registry
    ELSE register_agent(RegisterFirst(registry, k - 1), registration_order[k])

\* app/lifespan.py: _initialize_agents raises after k registrations (a
\* container provider or register_agent raises); lifespan logs and re-raises,
\* so startup never completes.
StartupFails(k) ==
    /\ ~started
    /\ agents = {}
    /\ agents' = RegisterFirst(agents, k)
    /\ started' = FALSE
    /\ UNCHANGED <<heap, conversations, calls, uuids, appended, dropped>>
    /\ UNCHANGED httpVars
    /\ UNCHANGED unitVars
    /\ UNCHANGED repo

\* Lines 54-61 of process_message, run on the context at reference ref of heap h
\* with store convs: append the user message, resolve the agent, and either
\* suspend at the agent call or raise.
BeginTurn(h, convs, ref, cid, content) ==
    LET user_message == create_user_message(content, uuids + 1)
        h2 == [h EXCEPT ![ref] = add_message(@, user_message)]
        agent == get_agent(agents, h2[ref].current_agent_type)
        call == [NewCall("process_message", cid, content, 0) EXCEPT
                    !.context = ref, !.user_message = user_message,
                    !.agent = agent, !.began = h2[ref].current_agent_type]
    IN  /\ heap' = h2
        /\ conversations' = convs
        /\ uuids' = uuids + 1
        /\ appended' = Log(appended, h2[ref].conversation_id, user_message)
        /\ calls' = Append(calls,
              IF agent = "none"
              THEN [call EXCEPT !.pc = "done", !.outcome = "ValueError_no_agent",
                                !.status = ProcessChatStatus("ValueError_no_agent")]
              ELSE [call EXCEPT !.pc = "await_agent"])

\* process_message without a conversation id, up to the agent call
ProcessMessageNew(content) ==
    /\ started
    /\ Len(calls) < MaxCalls
    /\ Cardinality(DOMAIN conversations) < MaxConv
    /\ LET id == Cardinality(DOMAIN conversations) + 1
           ref == Len(heap) + 1
       IN  /\ BeginTurn(Append(heap, NewContext(id)),
                        save_conversation(conversations, id, ref), ref, None, content)
           /\ dropped' = [k \in DOMAIN dropped \cup {id} |->
                             IF k = id THEN 0 ELSE dropped[k]]
    /\ UNCHANGED <<agents, started, repo>>
    /\ UNCHANGED httpVars
    /\ UNCHANGED unitVars

\* process_message with the id of a stored conversation, up to the agent call
ProcessMessageExisting(content, cid) ==
    /\ started
    /\ Len(calls) < MaxCalls
    /\ cid \in DOMAIN conversations
    /\ LET got == get_conversation(heap, conversations, cid)
       IN  BeginTurn(got.heap, conversations, got.ref, cid, content)
    /\ UNCHANGED <<agents, started, dropped, repo>>
    /\ UNCHANGED httpVars
    /\ UNCHANGED unitVars

\* process_message with an id that is not stored: raises ValueError at line 50
ProcessMessageNotFound(content, cid) ==
    /\ started
    /\ Len(calls) < MaxCalls
    /\ get_conversation(heap, conversations, cid).ref = None
    /\ calls' = Append(calls,
          [NewCall("process_message", cid, content, 0) EXCEPT
              !.pc = "done", !.outcome = "ValueError_not_found",
              !.status = ProcessChatStatus("ValueError_not_found")])
    /\ UNCHANGED <<agents, started, heap, conversations, uuids, appended, dropped, repo>>
    /\ UNCHANGED httpVars
    /\ UNCHANGED unitVars

\* process_message from the agent's reply to the return (lines 64-85)
ProcessMessageReturn(t, llm_ok) ==
    /\ calls[t].pc = "await_agent"
    /\ LET call == calls[t]
           ref == call.context
           agent_response == AgentProcessMessage(call.agent, call.content, llm_ok)
           context == CompleteTurn(heap[ref], call.agent, agent_response, uuids + 1)
           assistant_message == context.messages[Len(context.messages)]
       IN  /\ heap' = [heap EXCEPT ![ref] = context]
           /\ conversations' = update_conversation(conversations,
                                    context.conversation_id, ref)
           /\ uuids' = uuids + 1
           /\ appended' = Log(appended, context.conversation_id, assistant_message)
           /\ calls' = [calls EXCEPT ![t] = [@ EXCEPT
                  !.pc = "done", !.outcome = "ok",
                  !.status = ProcessChatStatus("ok"),
                  !.assistant_message = assistant_message,
                  !.response_id = context.conversation_id,
                  !.response_agent_type = context.current_agent_type]]
    /\ UNCHANGED <<agents, started, dropped, repo>>
    /\ UNCHANGED httpVars
    /\ UNCHANGED unitVars

\* ChatHandler.get_conversation_history over ConversationManager.get_conversation_history
GetConversationHistory(cid, limit) ==
    /\ started
    /\ Len(calls) < MaxCalls
    /\ LET got == get_conversation(heap, conversations, cid)
           found == got.ref # None
           context == TruncateHistory(got.heap[got.ref], limit)
       IN  IF found
           THEN /\ heap' = [got.heap EXCEPT ![got.ref] = context]
                /\ dropped' = [dropped EXCEPT ![context.conversation_id] =
                        @ + Len(got.heap[got.ref].messages) - Len(context.messages)]
                /\ calls' = Append(calls,
                      [NewCall("get_conversation_history", cid, "", limit) EXCEPT
                          !.pc = "done", !.outcome = "ok", !.context = got.ref,
                          !.status = LookupStatus(TRUE),
                          !.response_id = cid,
                          !.response_agent_type = context.current_agent_type,
                          !.response_messages = context.messages])
           ELSE /\ calls' = Append(calls,
                      [NewCall("get_conversation_history", cid, "", limit) EXCEPT
                          !.pc = "done", !.outcome = "None",
                          !.status = LookupStatus(FALSE)])
                /\ UNCHANGED <<heap, dropped>>
    /\ UNCHANGED <<agents, started, conversations, uuids, appended, repo>>
    /\ UNCHANGED httpVars
    /\ UNCHANGED unitVars

\* ChatHandler.end_conversation over ConversationManager.end_conversation
EndConversation(cid) ==
    /\ started
    /\ Len(calls) < MaxCalls
    /\ LET got == get_conversation(heap, conversations, cid)
           found == got.ref # None
           context == EndContext(got.heap[got.ref])
       IN  IF found
           THEN /\ heap' = [got.heap EXCEPT ![got.ref] = context]
                /\ conversations' = update_conversation(conversations,
                                         context.conversation_id, got.ref)
                /\ calls' = Append(calls,
                      [NewCall("end_conversation", cid, "", 0) EXCEPT
                          !.pc = "done", !.outcome = "True", !.context = got.ref,
                          !.status = LookupStatus(TRUE), !.response_id = cid])
           ELSE /\ calls' = Append(calls,
                      [NewCall("end_conversation", cid, "", 0) EXCEPT
                          !.pc = "done", !.outcome = "False",
                          !.status = LookupStatus(FALSE)])
                /\ UNCHANGED <<heap, conversations>>
    /\ UNCHANGED <<agents, started, uuids, appended, dropped, repo>>
    /\ UNCHANGED httpVars
    /\ UNCHANGED unitVars

Next ==
    \/ Startup
    \/ \E k \in 0..(Len(registration_order) - 1) : StartupFails(k)
    \/ \E content \in Contents : ProcessMessageNew(content)
    \/ \E content \in Contents, cid \in ClientIds : ProcessMessageExisting(content, cid)
    \/ \E content \in Contents, cid \in ClientIds : ProcessMessageNotFound(content, cid)
    \/ \E t \in 1..Len(calls), llm_ok \in BOOLEAN : ProcessMessageReturn(t, llm_ok)
    \/ \E cid \in ClientIds, limit \in Limits : GetConversationHistory(cid, limit)
    \/ \E cid \in ClientIds : EndConversation(cid)

Spec == Init /\ [][Next]_vars

\* ------------------------------------------- the repository used on its own
\* A caller constructs contexts, appends to them and persists them; two
\* contexts may carry the same conversation id.
ConversationIds == 1..MaxConv

Put(f, k, v) == [x \in DOMAIN f \cup {k} |-> IF x = k THEN v ELSE f[x]]

RepoStep(op, found) == [repo EXCEPT !.ops = @ + 1, !.last = op, !.found = found]

ConstructContext(id) ==
    /\ repo.ops < MaxRepoOps
    /\ Len(heap) <= MaxConv
    /\ heap' = Append(heap, NewContext(id))
    /\ repo' = [RepoStep("construct", TRUE) EXCEPT
                   !.written = Put(@, Len(heap) + 1, << >>)]
    /\ UNCHANGED <<agents, started, conversations, calls, uuids, appended, dropped>>
    /\ UNCHANGED httpVars
    /\ UNCHANGED unitVars

ContextAddMessage(ref) ==
    /\ repo.ops < MaxRepoOps
    /\ LET message == create_user_message("hola", uuids + 1)
       IN  /\ heap' = [heap EXCEPT ![ref] = add_message(@, message)]
           /\ repo' = [RepoStep("context_add_message", TRUE) EXCEPT
                          !.written = Put(@, ref, Append(@[ref], message))]
    /\ uuids' = uuids + 1
    /\ UNCHANGED <<agents, started, conversations, calls, appended, dropped>>
    /\ UNCHANGED httpVars
    /\ UNCHANGED unitVars

SaveConversation(ref) ==
    /\ repo.ops < MaxRepoOps
    /\ conversations' = save_conversation(conversations, heap[ref].conversation_id, ref)
    /\ repo' = [RepoStep("save_conversation", TRUE) EXCEPT
                   !.persisted = Put(@, heap[ref].conversation_id, ref)]
    /\ UNCHANGED <<agents, started, heap, calls, uuids, appended, dropped>>
    /\ UNCHANGED httpVars
    /\ UNCHANGED unitVars

UpdateConversation(ref) ==
    /\ repo.ops < MaxRepoOps
    /\ conversations' = update_conversation(conversations, heap[ref].conversation_id, ref)
    /\ repo' = [RepoStep("update_conversation", TRUE) EXCEPT
                   !.persisted = Put(@, heap[ref].conversation_id, ref)]
    /\ UNCHANGED <<agents, started, heap, calls, uuids, appended, dropped>>
    /\ UNCHANGED httpVars
    /\ UNCHANGED unitVars

RepositoryAddMessage(id) ==
    /\ repo.ops < MaxRepoOps
    /\ LET message == create_user_message("hola", uuids + 1)
           after == repository_add_message(heap, conversations, id, message)
           found == id \in DOMAIN conversations
       IN  /\ heap' = after.heap
           /\ conversations' = after.conversations
           /\ repo' = IF found
                      THEN [RepoStep("add_message", TRUE) EXCEPT
                              !.written = Put(@, conversations[id],
                                              Append(@[conversations[id]], message))]
                      ELSE RepoStep("add_message", FALSE)
    /\ uuids' = uuids + 1
    /\ UNCHANGED <<agents, started, calls, appended, dropped>>
    /\ UNCHANGED httpVars
    /\ UNCHANGED unitVars

\* await repository.delete_conversation(id): True when the id was stored.
DeleteConversation(id) ==
    /\ repo.ops < MaxRepoOps
    /\ conversations' = delete_conversation(conversations, id)
    /\ repo' = [RepoStep("delete_conversation", id \in DOMAIN conversations) EXCEPT
                   !.persisted = [k \in DOMAIN @ \ {id} |-> @[k]]]
    /\ UNCHANGED <<agents, started, heap, calls, uuids, appended, dropped>>
    /\ UNCHANGED httpVars
    /\ UNCHANGED unitVars

\* repository.clear_all()
ClearAllConversations ==
    /\ repo.ops < MaxRepoOps
    /\ conversations' = clear_all_conversations(conversations)
    /\ repo' = [RepoStep("clear_all", TRUE) EXCEPT !.persisted = << >>]
    /\ UNCHANGED <<agents, started, heap, calls, uuids, appended, dropped>>
    /\ UNCHANGED httpVars
    /\ UNCHANGED unitVars

\* await registry.register_agent(agent) on the registry alone
RegisterAgent(agent_type) ==
    /\ repo.ops < MaxRepoOps
    /\ agents' = register_agent(agents, agent_type)
    /\ repo' = RepoStep("register_agent", TRUE)
    /\ UNCHANGED <<started, heap, conversations, calls, uuids, appended, dropped>>
    /\ UNCHANGED httpVars
    /\ UNCHANGED unitVars

\* registry.clear_all()
ClearAllAgents ==
    /\ repo.ops < MaxRepoOps
    /\ agents' = clear_all_agents(agents)
    /\ repo' = RepoStep("registry_clear_all", TRUE)
    /\ UNCHANGED <<started, heap, conversations, calls, uuids, appended, dropped>>
    /\ UNCHANGED httpVars
    /\ UNCHANGED unitVars

RepoNext ==
    \/ \E id \in ConversationIds : ConstructContext(id)
    \/ \E ref \in 1..Len(heap) : ContextAddMessage(ref)
    \/ \E ref \in 1..Len(heap) : SaveConversation(ref)
    \/ \E ref \in 1..Len(heap) : UpdateConversation(ref)
    \/ \E id \in ConversationIds : RepositoryAddMessage(id)
    \/ \E id \in ConversationIds : DeleteConversation(id)
    \/ ClearAllConversations
    \/ \E agent_type \in AgentType : RegisterAgent(agent_type)
    \/ ClearAllAgents

RepoSpec == Init /\ [][RepoNext]_vars

\* ------------------------------------------- presentation/http/middleware
ExemptPaths_without_ping == {"/health", "/docs", "/redoc", "/openapi.json"}

ExemptPaths == {"/health", "/ping", "/docs", "/redoc", "/openapi.json"}

\* Request paths: two of the exemption list and one that is not in it but
\* begins with an exempt path.
Paths == {"/health", "/ping", "/health/detailed"}

\* What the application beneath the middleware does with a request: it
\* answers (also when a handler raises HTTPException, which the framework's
\* exception layer beneath the middleware turns into a response), or an
\* unhandled exception escapes.
Response(status) ==
    [kind |-> "response", status |-> status, retry_after |-> 0, header |-> None]

Raised(status, retry_after) ==
    [kind |-> "raise", status |-> status, retry_after |-> retry_after, header |-> None]

Downstream == {Response(200), Raised(500, 0)}

\* Requests that may be suspended in call_next at the same time.
MaxInFlight == 2

\* dispatch is suspended in `await call_next(request)`: nothing has left the
\* middleware stack yet.
Suspended ==
    [kind |-> "suspended", status |-> 0, retry_after |-> 0, header |-> None]

\* X-Forwarded-For is the list of its comma-separated entries, << >> when the
\* header is absent; "" stands for an absent X-Real-IP / request.client.
ClientInputs ==
    { [forwarded_for |-> << "10.0.0.1", "10.0.0.9" >>, real_ip |-> "10.0.0.2", host |-> "10.0.0.2"],
      [forwarded_for |-> << >>, real_ip |-> "10.0.0.1", host |-> "10.0.0.2"],
      [forwarded_for |-> << >>, real_ip |-> "", host |-> "10.0.0.1"],
      [forwarded_for |-> << >>, real_ip |-> "", host |-> ""] }

_get_client_ip(forwarded_for, real_ip, host) ==
    IF forwarded_for # << >> THEN forwarded_for[1]
    ELSE IF real_ip # "" THEN real_ip
    ELSE IF host # "" THEN host ELSE "unknown"

InWindow(req_time, current_time) == req_time > current_time - window_seconds

_cleanup_old_requests(reqs, client_ip, current_time) ==
    IF client_ip \in DOMAIN reqs
    THEN LET kept == SelectSeq(reqs[client_ip], LAMBDA t : InWindow(t, current_time))
         IN  IF kept = << >>
             THEN [k \in DOMAIN reqs \ {client_ip} |-> reqs[k]]
             ELSE [reqs EXCEPT ![client_ip] = kept]
    ELSE reqs

_is_rate_limited_above(reqs, client_ip, limit) ==
    IF client_ip \notin DOMAIN reqs THEN FALSE
    ELSE Len(reqs[client_ip]) > limit

_is_rate_limited(reqs, client_ip, limit) ==
    IF client_ip \notin DOMAIN reqs THEN FALSE
    ELSE Len(reqs[client_ip]) >= limit

_add_request(reqs, client_ip, current_time) ==
    [k \in DOMAIN reqs \cup {client_ip} |->
        IF k \in DOMAIN reqs
        THEN (IF k = client_ip THEN Append(reqs[k], current_time) ELSE reqs[k])
        ELSE << current_time >>]

\* RateLimitMiddleware.dispatch: the timestamp map afterwards, whether the
\* request was recorded, and what dispatch returns or raises.
RateLimitDispatch_recording_rejected(reqs, limit, path, client_ip, current_time, downstream) ==
    IF path \in ExemptPaths
    THEN [requests |-> reqs, recorded |-> FALSE, outcome |-> downstream]
    ELSE LET cleaned == _cleanup_old_requests(reqs, client_ip, current_time)
             added == _add_request(cleaned, client_ip, current_time)
         IN  IF _is_rate_limited(cleaned, client_ip, limit)
             THEN [requests |-> added, recorded |-> FALSE,
                   outcome |-> Raised(429, window_seconds)]
             ELSE [requests |-> added, recorded |-> TRUE, outcome |-> downstream]

RateLimitDispatch(reqs, limit, path, client_ip, current_time, downstream) ==
    IF path \in ExemptPaths
    THEN [requests |-> reqs, recorded |-> FALSE, outcome |-> downstream]
    ELSE LET cleaned == _cleanup_old_requests(reqs, client_ip, current_time)
         IN  IF _is_rate_limited(cleaned, client_ip, limit)
             THEN [requests |-> cleaned, recorded |-> FALSE,
                   outcome |-> Raised(429, window_seconds)]
             ELSE [requests |-> _add_request(cleaned, client_ip, current_time),
                   recorded |-> TRUE, outcome |-> downstream]

\* LoggingMiddleware.dispatch around the outcome of call_next
LoggingDispatch(correlation_id, inner) ==
    IF inner.kind = "response"
    THEN [inner EXCEPT !.header = correlation_id]
    ELSE inner

\* A request enters LoggingMiddleware (outermost) and RateLimitMiddleware
\* beneath it, and runs up to the first await: the limiter rejects it, or it
\* is recorded and dispatch is suspended in call_next.
HttpRequest(path, forwarded_for, real_ip, host) ==
    /\ http.seq < MaxRequests
    /\ LET correlation_id == http.seq + 1
           client_ip == _get_client_ip(forwarded_for, real_ip, host)
           limited == RateLimitDispatch(requests, max_requests, path, client_ip,
                                        now, Suspended)
       IN  /\ requests' = limited.requests
           /\ accepted' = IF limited.recorded
                          THEN _add_request(accepted, client_ip, now)
                          ELSE accepted
           /\ http' = [seq |-> http.seq + 1, path |-> path, client_ip |-> client_ip,
                       correlation_id |-> correlation_id,
                       outcome |-> LoggingDispatch(correlation_id, limited.outcome)]
           /\ limited.outcome = Suspended => Cardinality(in_flight) < MaxInFlight
           /\ in_flight' = IF limited.outcome = Suspended
                           THEN in_flight \cup {[correlation_id |-> correlation_id,
                                                 path |-> path, client_ip |-> client_ip]}
                           ELSE in_flight
    /\ UNCHANGED <<max_requests, now, repo>>
    /\ UNCHANGED chatVars
    /\ UNCHANGED unitVars

\* call_next returns or raises for a suspended request: RateLimitMiddleware
\* passes the outcome on and LoggingMiddleware adds the header to a response.
HttpResponse(request, downstream) ==
    /\ request \in in_flight
    /\ in_flight' = in_flight \ {request}
    /\ http' = [seq |-> http.seq, path |-> request.path,
                client_ip |-> request.client_ip,
                correlation_id |-> request.correlation_id,
                outcome |-> LoggingDispatch(request.correlation_id, downstream)]
    /\ UNCHANGED <<max_requests, requests, now, accepted, repo>>
    /\ UNCHANGED chatVars
    /\ UNCHANGED unitVars

TickSteps == {window_seconds \div 2, window_seconds}

Tick(d) ==
    /\ now + d <= MaxTime
    /\ now' = now + d
    /\ UNCHANGED <<max_requests, requests, accepted, http, in_flight, repo>>
    /\ UNCHANGED chatVars
    /\ UNCHANGED unitVars

HttpInit == \E limit \in 1..MaxRate : InitWith(limit)

HttpNext ==
    \/ \E path \in Paths, client \in ClientInputs :
            HttpRequest(path, client.forwarded_for, client.real_ip, client.host)
    \/ \E request \in in_flight, downstream \in Downstream :
            HttpResponse(request, downstream)
    \/ \E d \in TickSteps : Tick(d)

HttpSpec == HttpInit /\ [][HttpNext]_vars

\* ------------------------------------------------------------ vocabulary
Stored(id) == heap[conversations[id]]

IsTurn(t) == calls[t].op = "process_message" /\ calls[t].context # None

CompletedTurn(t) == IsTurn(t) /\ calls[t].pc = "done" /\ calls[t].outcome = "ok"

\* The call that the step from the current state to the next hands over.
Handed == calls'[Len(calls')]

HandsOver == Len(calls') = Len(calls) + 1

\* Position of the message with the given id in a message list, 0 if absent.
Pos(messages, id) ==
    IF \E i \in 1..Len(messages) : messages[i].id = id
    THEN CHOOSE i \in 1..Len(messages) : messages[i].id = id
    ELSE 0

IsSuffix(s, log, cut) == s = SubSeq(log, cut + 1, Len(log))

\* ------------------------------------------------------------------ C1
\* What an id-less process_message call creates: a context stored under a
\* fresh non-empty id, in state active while the agent is awaited, its first
\* turn answered by the coordinator, the response carrying the id.
C1_Created ==
    \A t \in 1..Len(calls) :
        (calls[t].op = "process_message" /\ calls[t].conversation_id = None) =>
            LET ref == calls[t].context
                id == heap[ref].conversation_id
            IN  /\ id # None
                /\ id \in DOMAIN conversations
                /\ conversations[id] = ref
                /\ calls[t].agent = COORDINATOR
                /\ appended[id][1] = calls[t].user_message
                /\ calls[t].pc = "await_agent" => heap[ref].state = ACTIVE
                /\ calls[t].pc = "done" =>
                      /\ calls[t].response_id = id
                      /\ calls[t].assistant_message.agent_type = COORDINATOR

\* A process_message call that supplies a stored id works on the stored
\* context and appends its user message, storing no other conversation.
C1_Continue ==
    \A id \in DOMAIN conversations :
        (HandsOver /\ Handed.op = "process_message" /\ Handed.conversation_id = id) =>
            /\ conversations' = conversations
            /\ Len(heap') = Len(heap)
            /\ Handed.context = conversations[id]
            /\ heap'[conversations'[id]] = add_message(Stored(id), Handed.user_message)

\* The completed id-less call that returned the id.
C1_FirstTurn(t, id) ==
    /\ calls[t].op = "process_message"
    /\ calls[t].conversation_id = None
    /\ calls[t].pc = "done"
    /\ calls[t].response_id = id

\* The context a later call with the id loads still lists the first turn's
\* user and assistant messages, the user message before the reply.
C1_FirstTurnListed ==
    \A id \in DOMAIN conversations :
        (HandsOver /\ Handed.op = "process_message" /\ Handed.conversation_id = id) =>
            \A t \in 1..Len(calls) :
                C1_FirstTurn(t, id) =>
                    /\ Pos(Stored(id).messages, calls[t].user_message.id) > 0
                    /\ Pos(Stored(id).messages, calls[t].assistant_message.id)
                          > Pos(Stored(id).messages, calls[t].user_message.id)

\* The context a later call with the id loads lists a message of the first
\* turn exactly when no history read has cut it off: the list is what was
\* appended to the conversation less the dropped[id] oldest messages.
C1_FirstTurnListedUnlessCut ==
    \A id \in DOMAIN conversations :
        (HandsOver /\ Handed.op = "process_message" /\ Handed.conversation_id = id) =>
            /\ IsSuffix(Stored(id).messages, appended[id], dropped[id])
            /\ \A t \in 1..Len(calls) :
                  C1_FirstTurn(t, id) =>
                      /\ Pos(appended[id], calls[t].user_message.id) = 1
                      /\ Pos(appended[id], calls[t].assistant_message.id) > 1
                      /\ Pos(Stored(id).messages, calls[t].user_message.id) > 0
                            <=> dropped[id] = 0
                      /\ Pos(Stored(id).messages, calls[t].assistant_message.id) > 0
                            <=> Pos(appended[id], calls[t].assistant_message.id) > dropped[id]
                      /\ dropped[id] = 0 =>
                            /\ Stored(id).messages[1] = calls[t].user_message
                            /\ Pos(Stored(id).messages, calls[t].assistant_message.id) > 1

\* C1 as stated: a process_message call without a conversation id stores a
\* new context in state active under a fresh non-empty id, its first turn is
\* answered by the coordinator and the response carries that id; a later
\* process_message call that supplies the id loads that same stored context,
\* whose list still contains the first turn's user and assistant messages,
\* and appends its user message to it without storing another conversation.
C1_LaterCallFindsFirstTurn == [][C1_Created' /\ C1_Continue /\ C1_FirstTurnListed]_vars

\* C1, amended: a process_message call without a conversation id stores a
\* new context in state active under a fresh non-empty id, its first turn is
\* answered by the coordinator and the response carries that id; a later
\* process_message call that supplies the id loads that same stored context
\* and appends its user message to it without storing another conversation;
\* the loaded list holds the messages appended so far less those that history
\* reads have cut off, so it contains the first turn's user and assistant
\* messages exactly when no history read has cut them.
C1_ConversationReusable ==
    [][C1_Created' /\ C1_Continue /\ C1_FirstTurnListedUnlessCut]_vars

\* An id-less call created a conversation and completed, a history read with
\* limit 1 cut its user message off, and a later call with the returned id
\* has been handed over: it works on the same stored context, whose list is
\* now the first turn's reply followed by the later call's user message.
C1_Witness ==
    \E t, h, u \in 1..Len(calls) :
        /\ t < h /\ h < u
        /\ CompletedTurn(t) /\ calls[t].conversation_id = None
        /\ calls[h].op = "get_conversation_history"
        /\ calls[h].conversation_id = calls[t].response_id
        /\ calls[h].limit = 1
        /\ IsTurn(u) /\ calls[u].conversation_id = calls[t].response_id
        /\ calls[u].context = calls[t].context
        /\ dropped[calls[t].response_id] = 1
        /\ Stored(calls[t].response_id).messages
              = <<calls[t].assistant_message, calls[u].user_message>>

\* ------------------------------------------------------------------ C2
\* C2: the assistant message a turn appends is tagged with the agent type
\* that was current when the turn began (the agent that produced it); when
\* that agent signals a switch with a target, the context's current agent
\* type is the target once the reply has been appended, the reply itself
\* keeps the tag of the agent that produced it, a turn that begins afterwards
\* is answered by the agent then current, and the response's agent_type is
\* the context's current agent type after the turn.
C2_Tagged ==
    \A t \in 1..Len(calls) :
        /\ IsTurn(t) => calls[t].agent = calls[t].began
        /\ CompletedTurn(t) =>
              /\ calls[t].assistant_message.role = ASSISTANT
              /\ calls[t].assistant_message.agent_type = calls[t].began

C2_Return ==
    \A t \in 1..Len(calls) :
        (calls[t].pc = "await_agent" /\ calls'[t].pc = "done") =>
            LET ref == calls[t].context
                before == heap[ref]
                after == heap'[ref]
                reply == after.messages[Len(after.messages)]
                target == IF calls[t].began = COORDINATOR
                          THEN should_switch_agent(calls[t].content) ELSE "none"
            IN  /\ Len(after.messages) = Len(before.messages) + 1
                /\ reply = calls'[t].assistant_message
                /\ reply.agent_type = calls[t].began
                /\ after.current_agent_type =
                      IF target # "none" THEN target ELSE before.current_agent_type
                /\ calls'[t].response_agent_type = after.current_agent_type

C2_Begin ==
    (HandsOver /\ Handed.op = "process_message" /\ Handed.context # None) =>
        Handed.began = heap'[Handed.context].current_agent_type

C2_SwitchTakesEffectNextTurn == [][C2_Tagged' /\ C2_Return /\ C2_Begin]_vars

\* The coordinator handed a conversation over and a later turn of that
\* conversation was answered by the target agent.
C2_Witness ==
    \E t, u \in 1..Len(calls) :
        /\ t < u
        /\ CompletedTurn(t) /\ CompletedTurn(u)
        /\ calls[t].context = calls[u].context
        /\ calls[t].assistant_message.agent_type = COORDINATOR
        /\ calls[t].response_agent_type = WEB_SEARCH
        /\ calls[u].assistant_message.agent_type = WEB_SEARCH

\* ------------------------------------------------------------------ C3
\* A message of turn t that no history read has cut off is missing from the
\* stored context of conversation id.
Lost(t, id) ==
    \E m \in {calls[t].user_message.id, calls[t].assistant_message.id} :
        /\ Pos(appended[id], m) > dropped[id]
        /\ Pos(Stored(id).messages, m) = 0

\* Turns a and b on the stored conversation id were both suspended at their
\* agent calls at the same time: b's user message was appended before a's reply.
Interleaved(a, b, id) ==
    /\ a < b
    /\ CompletedTurn(a) /\ CompletedTurn(b)
    /\ calls[a].conversation_id = id /\ calls[b].conversation_id = id
    /\ Pos(appended[id], calls[b].user_message.id)
         < Pos(appended[id], calls[a].assistant_message.id)

\* C3 as stated, for the interleaving it describes: once two turns that were
\* suspended at their agent calls at the same time on one existing id have
\* both completed, the later persist has overwritten the earlier one, and the
\* stored context lacks a message that one of the two appended.
C3_LaterPersistOverwrites ==
    \A id \in DOMAIN conversations : \A a, b \in 1..Len(calls) :
        Interleaved(a, b, id) => (Lost(a, id) \/ Lost(b, id))

\* C3 (amended): concurrent turns on one conversation id work on the one
\* stored context object, so no update is lost: the stored message list is
\* always the sequence of all messages appended to the conversation, less
\* only what a history read has cut off at the front, and the store keeps
\* referring to the object the turns worked on.
C3_NoLostUpdate ==
    /\ \A id \in DOMAIN conversations :
          IsSuffix(Stored(id).messages, appended[id], dropped[id])
    /\ \A t \in 1..Len(calls) :
          IsTurn(t) =>
              /\ heap[calls[t].context].conversation_id \in DOMAIN conversations
              /\ conversations[heap[calls[t].context].conversation_id] = calls[t].context

\* Two turns on an existing conversation interleaved and completed, and the
\* stored context holds all four of their messages.
C3_Witness ==
    \E id \in DOMAIN conversations : \E a, b \in 1..Len(calls) :
        /\ Interleaved(a, b, id)
        /\ \A m \in {calls[a].user_message.id, calls[a].assistant_message.id,
                      calls[b].user_message.id, calls[b].assistant_message.id} :
              Pos(Stored(id).messages, m) > 0

\* ------------------------------------------------------------------ C4
SameConversation(a, b) ==
    /\ IsTurn(a) /\ IsTurn(b)
    /\ heap[calls[a].context].conversation_id = heap[calls[b].context].conversation_id

TurnMessages(t) == heap[calls[t].context].messages

Uncut(t) == dropped[heap[calls[t].context].conversation_id] = 0

\* C4 as stated: when call a was handed over before call b on the same
\* conversation, a's user message precedes b's user message and a's reply
\* precedes b's reply in the stored list, and nothing is missing.
C4_TurnsInHandOverOrder ==
    \A a, b \in 1..Len(calls) :
        (a < b /\ CompletedTurn(a) /\ CompletedTurn(b) /\ SameConversation(a, b)
           /\ Uncut(a)) =>
            /\ Pos(TurnMessages(a), calls[a].user_message.id) > 0
            /\ Pos(TurnMessages(a), calls[a].assistant_message.id) > 0
            /\ Pos(TurnMessages(a), calls[a].user_message.id)
                 < Pos(TurnMessages(a), calls[b].user_message.id)
            /\ Pos(TurnMessages(a), calls[a].assistant_message.id)
                 < Pos(TurnMessages(a), calls[b].assistant_message.id)

\* C4 (amended): the stored list holds the messages in the order in which
\* they were appended, without duplicates; user messages appear in hand-over
\* order and every reply after the user message of its own turn, while
\* replies appear in the order in which the agent calls complete; no message
\* of a turn is missing unless a history read has cut it off.
C4_AppendOrder ==
    /\ \A id \in DOMAIN conversations :
          \A i, j \in 1..Len(Stored(id).messages) :
              i < j => Stored(id).messages[i].id < Stored(id).messages[j].id
    /\ \A a \in 1..Len(calls) :
          (IsTurn(a) /\ Uncut(a)) =>
              /\ Pos(TurnMessages(a), calls[a].user_message.id) > 0
              /\ CompletedTurn(a) =>
                    Pos(TurnMessages(a), calls[a].user_message.id)
                      < Pos(TurnMessages(a), calls[a].assistant_message.id)
              /\ \A b \in 1..Len(calls) :
                    (a < b /\ SameConversation(a, b)) =>
                        Pos(TurnMessages(a), calls[a].user_message.id)
                          < Pos(TurnMessages(a), calls[b].user_message.id)

\* The later of two turns was answered first: its reply lies before the
\* earlier turn's reply in the stored list.
C4_Witness ==
    \E a, b \in 1..Len(calls) :
        /\ a < b /\ CompletedTurn(a) /\ CompletedTurn(b) /\ SameConversation(a, b)
        /\ Uncut(a)
        /\ Pos(TurnMessages(a), calls[b].assistant_message.id)
             < Pos(TurnMessages(a), calls[a].assistant_message.id)

\* ------------------------------------------------------------------ C5
\* C5: a chat request naming a conversation id that is not stored is answered
\* with HTTP 404 by each of the three chat operations and leaves the
\* conversation store as it was.
C5_UnknownIdStep ==
    (HandsOver /\ Handed.conversation_id # None
        /\ Handed.conversation_id \notin DOMAIN conversations) =>
            /\ Handed.status = 404
            /\ UNCHANGED <<heap, conversations>>

C5_UnknownIdIs404 == [][C5_UnknownIdStep]_vars

\* ------------------------------------------------------------------ C6
\* C6: end_conversation on an id that is not stored returns false (HTTP 404)
\* and changes nothing; on a stored id it returns true, sets the state to
\* completed and leaves the record, its messages and everything else in
\* place, also when the conversation was completed already; a history fetch
\* on a completed conversation still returns it.
C6_EndStep ==
    (HandsOver /\ Handed.op = "end_conversation") =>
        /\ Handed.conversation_id \notin DOMAIN conversations =>
              /\ Handed.outcome = "False"
              /\ Handed.status = 404
              /\ UNCHANGED <<heap, conversations>>
        /\ \A id \in DOMAIN conversations :
              Handed.conversation_id = id =>
                  /\ Handed.outcome = "True"
                  /\ Handed.status = 200
                  /\ conversations' = conversations
                  /\ heap' = [heap EXCEPT ![conversations[id]].state = COMPLETED]

C6_HistoryStep ==
    \A id \in DOMAIN conversations :
        (HandsOver /\ Handed.op = "get_conversation_history"
           /\ Handed.conversation_id = id /\ Stored(id).state = COMPLETED) =>
            /\ Handed.outcome = "ok"
            /\ Handed.status = 200
            /\ Handed.response_id = id
            /\ id \in DOMAIN conversations'
            /\ heap'[conversations'[id]].state = COMPLETED

C6_EndKeepsRecord == [][C6_EndStep /\ C6_HistoryStep]_vars

\* A conversation with messages was ended and its history was fetched afterwards.
C6_Witness ==
    \E t, u \in 1..Len(calls) :
        /\ t < u
        /\ calls[t].op = "end_conversation" /\ calls[t].outcome = "True"
        /\ calls[u].op = "get_conversation_history" /\ calls[u].outcome = "ok"
        /\ calls[u].conversation_id = calls[t].conversation_id
        /\ Len(calls[u].response_messages) > 0
        /\ Stored(calls[t].conversation_id).state = COMPLETED

\* ------------------------------------------------------------------ C7
\* C7: after any sequence of save_conversation, update_conversation and
\* add_message operations, get_conversation(id) returns the context last
\* persisted under the id, and its message list is exactly the sequence of
\* messages appended to that context, in append order; add_message on an id
\* that is not stored leaves the heap and the store unchanged.
C7_RoundTrip ==
    \A id \in DOMAIN conversations :
        LET got == get_conversation(heap, conversations, id)
        IN  /\ got.ref # None
            /\ got.heap = heap
            /\ id \in DOMAIN repo.persisted
            /\ got.ref = repo.persisted[id]
            /\ heap[got.ref].conversation_id = id
            /\ got.ref \in DOMAIN repo.written
            /\ heap[got.ref].messages = repo.written[got.ref]

C7_AddToUnknownIsNoOp ==
    (repo'.ops = repo.ops + 1 /\ repo'.last = "add_message" /\ ~repo'.found) =>
        UNCHANGED <<heap, conversations>>

C7_OrderPreservingStore == [][C7_RoundTrip' /\ C7_AddToUnknownIsNoOp]_vars

\* A stored conversation holds several messages, one of them added through
\* the repository, and an add_message on an id that is not stored has just run.
C7_Witness ==
    /\ repo.last = "add_message" /\ ~repo.found
    /\ \E id \in DOMAIN conversations : Len(Stored(id).messages) >= 2

\* ------------------------------------------------------------------ C8
AcceptedOf(client_ip) ==
    IF client_ip \in DOMAIN accepted THEN accepted[client_ip] ELSE << >>

\* Number of the given timestamps that lie in the window (t - 60, t].
CountInWindow(times, t) ==
    Cardinality({i \in 1..Len(times) : times[i] > t - 60 /\ times[i] <= t})

NewRequest == http'.seq = http.seq + 1

\* C8: for every configured limit L >= 1 and every client key, the accepted
\* non-exempt requests of the client in any window (t - 60, t] number at
\* most L; a non-exempt request that arrives when L accepted requests of the
\* client lie within the last 60 seconds is rejected with status 429 and
\* retry_after 60; and a request is not rejected when fewer than L lie
\* within the last 60 seconds: it is let through and recorded.
C8_WindowBound ==
    \A client_ip \in DOMAIN accepted : \A t \in 0..now :
        CountInWindow(accepted[client_ip], t) <= max_requests

C8_Decision ==
    (NewRequest /\ http'.path \notin ExemptPaths) =>
        LET recent == CountInWindow(AcceptedOf(http'.client_ip), now)
        IN  /\ recent >= max_requests =>
                  /\ http'.outcome.kind = "raise"
                  /\ http'.outcome.status = 429
                  /\ http'.outcome.retry_after = 60
                  /\ accepted' = accepted
            /\ recent < max_requests =>
                  /\ http'.outcome.status # 429
                  /\ http'.client_ip \in DOMAIN accepted'
                  /\ accepted'[http'.client_ip] =
                        Append(AcceptedOf(http'.client_ip), now)

C8_SlidingWindowLimit == [][C8_WindowBound' /\ C8_Decision]_vars

\* A client whose earlier requests have left the window was let through
\* again, reached the limit a second time and has just been rejected.
C8_Witness ==
    /\ http.path \notin ExemptPaths
    /\ http.outcome.status = 429
    /\ Len(AcceptedOf(http.client_ip)) > max_requests

\* ------------------------------------------------------------------ C9
\* C9: a request to /health, /ping, /docs, /redoc or /openapi.json is never
\* rejected by the rate limiter, whatever the client's history, and leaves
\* the per-client timestamp map unchanged (not counted, nothing pruned).
C9_Exempt ==
    (NewRequest /\ http'.path \in {"/health", "/ping", "/docs", "/redoc", "/openapi.json"}) =>
        /\ http'.outcome.status # 429
        /\ requests' = requests
        /\ accepted' = accepted

C9_ExemptPathsBypassLimiter == [][C9_Exempt]_vars

\* An exempt request of a client at its limit, with a stale entry of another
\* age still in the map, was answered.
C9_Witness ==
    /\ http.path \in {"/health", "/ping", "/docs", "/redoc", "/openapi.json"}
    /\ http.outcome.kind = "response"
    /\ http.outcome.status = 200
    /\ http.client_ip \in DOMAIN requests
    /\ Len(requests[http.client_ip]) >= max_requests
    /\ \E i \in 1..Len(requests[http.client_ip]) :
          ~InWindow(requests[http.client_ip][i], now)

\* ------------------------------------------------------------------ C10
\* C10: whatever leaves the middleware stack for a request carries an
\* X-Correlation-ID header equal to the correlation id generated for that
\* request, also when the rate limiter rejects the request and when the
\* downstream handler raises.
C10_CorrelationHeaderOnEveryResponse ==
    (http.seq > 0 /\ http.outcome.kind # "suspended") =>
        http.outcome.header = http.correlation_id

\* ------------------------------------------------ infrastructure/llm/gemini_client.py
FALLBACK_CONTENT ==
    "Lo siento, no pude procesar tu solicitud en este momento. Intenta de nuevo más tarde."

\* What the SDK's generate_content does: it raises, or it returns a dict
\* that has or lacks the keys "content" and "tokens_used".
SdkOutcomes ==
    {[kind |-> "raise"],
     [kind |-> "dict", has_content |-> TRUE, content |-> "Claro, te ayudo.",
      has_tokens |-> TRUE, tokens_used |-> 12],
     [kind |-> "dict", has_content |-> FALSE, content |-> "",
      has_tokens |-> TRUE, tokens_used |-> 7],
     [kind |-> "dict", has_content |-> TRUE, content |-> "Listo.",
      has_tokens |-> FALSE, tokens_used |-> NoTokens]}

\* _ensure_client: initialise the SDK client on first use; a failure of
\* adk.configure / adk.client is logged and re-raised, _client stays None.
_ensure_client(client, init_ok) ==
    IF client # None THEN [raised |-> FALSE, client |-> client]
    ELSE IF init_ok THEN [raised |-> FALSE, client |-> 1]
    ELSE [raised |-> TRUE, client |-> None]

\* The body of the try block of generate_response and its except branch.
GenerateContent(sdk) ==
    IF sdk.kind = "raise"
    THEN [content |-> FALLBACK_CONTENT, tokens_used |-> 0, error |-> TRUE]
    ELSE [content |-> IF sdk.has_content THEN sdk.content ELSE "",
          tokens_used |-> IF sdk.has_tokens THEN sdk.tokens_used ELSE NoTokens,
          error |-> FALSE]

\* generate_response: _ensure_client() is called before the try block.
generate_response(client, init_ok, sdk) ==
    LET ensured == _ensure_client(client, init_ok)
    IN  IF ensured.raised
        THEN [raised |-> TRUE, client |-> ensured.client, response |-> NoLlmResponse]
        ELSE IF ensured.client = None
        THEN [raised |-> FALSE, client |-> None,
              response |-> [content |-> FALLBACK_CONTENT, tokens_used |-> 0,
                            error |-> TRUE]]
        ELSE [raised |-> FALSE, client |-> ensured.client,
              response |-> GenerateContent(sdk)]

\* health_check: everything is inside the try block; an exception gives False.
health_check(client, init_ok, sdk) ==
    LET ensured == _ensure_client(client, init_ok)
    IN  IF ensured.raised
        THEN [raised |-> FALSE, client |-> ensured.client,
              response |-> NoLlmResponse, healthy |-> FALSE]
        ELSE LET generated == generate_response(ensured.client, init_ok, sdk)
             IN  IF generated.raised
                 THEN [raised |-> FALSE, client |-> generated.client,
                       response |-> NoLlmResponse, healthy |-> FALSE]
                 ELSE [raised |-> FALSE, client |-> generated.client,
                       response |-> generated.response,
                       healthy |-> ~generated.response.error]

\* Calls on one client that may be suspended in the SDK at the same time.
MaxLlmCalls == 3

\* generate_response up to `await self._client.generate_content(...)`:
\* _ensure_client runs before the try block, so a failed initialisation
\* raises to the caller; otherwise _client is set and the call is suspended.
GeminiGenerateResponse(init_ok) ==
    /\ Len(gemini.suspended) < MaxLlmCalls
    /\ LET ensured == _ensure_client(gemini.client, init_ok)
       IN  gemini' =
              IF ensured.raised
              THEN [gemini EXCEPT
                       !.client = ensured.client,
                       !.last = [NoLlmCall EXCEPT !.op = "generate_response",
                                                  !.init_ok = init_ok,
                                                  !.raised = TRUE]]
              ELSE [gemini EXCEPT
                       !.client = ensured.client,
                       !.suspended = Append(@, "generate_response")]
    /\ UNCHANGED <<chatVars, httpVars, repo, agent_run, routing, health_req, web_client, domain_entities,
                   device_refs,
                   device_clock,
                   recent_run,
                   wired_run,
                   handoff_run,
                   app>>

\* health_check up to the same await (reached through generate_response):
\* the failed initialisation is caught and gives False.
GeminiHealthCheck(init_ok) ==
    /\ Len(gemini.suspended) < MaxLlmCalls
    /\ LET ensured == _ensure_client(gemini.client, init_ok)
       IN  gemini' =
              IF ensured.raised
              THEN [gemini EXCEPT
                       !.client = ensured.client,
                       !.last = [NoLlmCall EXCEPT !.op = "health_check",
                                                  !.init_ok = init_ok]]
              ELSE [gemini EXCEPT
                       !.client = ensured.client,
                       !.suspended = Append(@, "health_check")]
    /\ UNCHANGED <<chatVars, httpVars, repo, agent_run, routing, health_req, web_client, domain_entities,
                   device_refs,
                   device_clock,
                   recent_run,
                   wired_run,
                   handoff_run,
                   app>>

\* The SDK call of the k-th suspended call returns or raises, and the call
\* runs to its end.
GeminiReturn(k, sdk) ==
    /\ k \in 1..Len(gemini.suspended)
    /\ LET op == gemini.suspended[k]
           response == GenerateContent(sdk)
       IN  gemini' =
              [gemini EXCEPT
                  !.suspended = SubSeq(@, 1, k - 1) \o SubSeq(@, k + 1, Len(@)),
                  !.last = [op |-> op, init_ok |-> TRUE, sdk |-> sdk, raised |-> FALSE,
                            response |-> response,
                            healthy |-> op = "health_check" /\ ~response.error]]
    /\ UNCHANGED <<chatVars, httpVars, repo, agent_run, routing, health_req, web_client, domain_entities,
                   device_refs,
                   device_clock,
                   recent_run,
                   wired_run,
                   handoff_run,
                   app>>

GeminiNext ==
    \/ \E init_ok \in BOOLEAN : GeminiGenerateResponse(init_ok)
    \/ \E init_ok \in BOOLEAN : GeminiHealthCheck(init_ok)
    \/ \E k \in 1..MaxLlmCalls, sdk \in SdkOutcomes : GeminiReturn(k, sdk)

GeminiSpec == Init /\ [][GeminiNext]_vars

\* ------------------------------------------------ the agents' external ports
\* LLMClientPort.generate_response as the agents see it: it raises, or it
\* returns a response whose content is a text (possibly blank or quoted).
LlmPortOutcomes ==
    {[kind |-> "raise", content |-> ""],
     [kind |-> "text", content |-> "Con gusto."],
     [kind |-> "text", content |-> " \"riego IoT\" "],
     [kind |-> "text", content |-> "  "]}

\* LocalKnowledgePort: the calls that raise.
LocalKnowledgeCalls == {"get_system_status", "get_sensor_data", "search_device_info"}

\* WebSearchPort.search: it raises, or it returns a list of results.
SearchResult1 ==
    [title |-> "Riego por goteo", url |-> "https://example.com/goteo",
     snippet |-> "Manual de riego."]
SearchResult2 == [title |-> "Sensores", url |-> "", snippet |-> ""]
SearchPortOutcomes ==
    {[kind |-> "raise", results |-> << >>],
     [kind |-> "results", results |-> << >>],
     [kind |-> "results", results |-> <<SearchResult1, SearchResult2>>]}

\* `try: response = await llm_client.generate_response(..); return response.content
\*  except Exception: return <fallback>`
LlmOrFallback(llm, fallback) ==
    [raised |-> FALSE,
     value |-> IF llm.kind = "raise" THEN fallback ELSE llm.content]

\* ------------------------------------------ infrastructure/agents/local_assistant.py
AnyWordIn(words, content_lower) == \E w \in words : Contains(content_lower, w)

\* str(e) of the exception a failing local-knowledge call raises.
KnowledgeErrorText == "boom"

\* The dict context_data holding the given keys: a port's answer is
\* represented by the name of its key, the entry "error" is the text built
\* from the exception.
ContextData(keys) ==
    [k \in keys |->
        IF k = "error"
        THEN "No se pudo obtener información del sistema: " \o KnowledgeErrorText
        ELSE k]

\* _gather_local_context: context_data. The three port calls share one try
\* block: the first one that raises ends the gathering and adds the key
\* "error".
_gather_local_context(content, failing) ==
    LET content_lower == lower(content)
        wants_status == AnyWordIn({"estado", "sistema", "status"}, content_lower)
        wants_sensor == AnyWordIn({"sensor", "temperatura", "humedad", "datos"},
                                  content_lower)
        wants_device == AnyWordIn({"dispositivo", "device"}, content_lower)
        after_status == IF wants_status THEN {"system_status"} ELSE {}
        after_sensor == after_status \cup (IF wants_sensor THEN {"sensor_data"} ELSE {})
        after_device == after_sensor \cup (IF wants_device THEN {"device_info"} ELSE {})
    IN  IF wants_status /\ "get_system_status" \in failing
        THEN [raised |-> FALSE, value |-> ContextData({"error"})]
        ELSE IF wants_sensor /\ "get_sensor_data" \in failing
        THEN [raised |-> FALSE, value |-> ContextData(after_status \cup {"error"})]
        ELSE IF wants_device /\ "search_device_info" \in failing
        THEN [raised |-> FALSE, value |-> ContextData(after_sensor \cup {"error"})]
        ELSE [raised |-> FALSE, value |-> ContextData(after_device)]

\* _generate_fallback_response
LocalFallbackResponse(local_data) ==
    IF "error" \in DOMAIN local_data
    THEN "Hay un problema técnico accediendo a los datos del sistema: "
         \o local_data["error"]
         \o ". Te recomiendo intentar de nuevo en unos momentos."
    ELSE IF DOMAIN local_data # {}
    THEN "He recopilado información del sistema local. ¿Podrías ser más específico sobre qué aspecto te interesa?"
    ELSE "Soy el Asistente Local del sistema IoT. Puedo ayudarte con información sobre dispositivos, sensores y estado del sistema. ¿Qué necesitas saber?"

LocalAssistantProcessMessage(content, failing, llm) ==
    LET local_data == _gather_local_context(content, failing)
    IN  IF local_data.raised
        THEN [raised |-> TRUE, content |-> "", should_switch_agent |-> FALSE,
              target_agent_type |-> "none"]
        ELSE LET response_content ==
                     LlmOrFallback(llm, LocalFallbackResponse(local_data.value))
             IN  [raised |-> response_content.raised,
                  content |-> response_content.value,
                  should_switch_agent |-> FALSE, target_agent_type |-> "none"]

\* ------------------------------------------ infrastructure/agents/web_search_agent.py
\* str.strip(chars): drop the leading and trailing characters that are in chars.
RECURSIVE lstrip(_, _)
lstrip(s, chars) ==
    IF Len(s) > 0 /\ SubSeq(s, 1, 1) \in chars
    THEN lstrip(SubSeq(s, 2, Len(s)), chars) ELSE s

RECURSIVE rstrip(_, _)
rstrip(s, chars) ==
    IF Len(s) > 0 /\ SubSeq(s, Len(s), Len(s)) \in chars
    THEN rstrip(SubSeq(s, 1, Len(s) - 1), chars) ELSE s

strip(s, chars) == rstrip(lstrip(s, chars), chars)

Whitespace == {" ", "\t", "\n", "\r"}

\* _extract_search_query: the LLM's text, stripped of blanks and then of
\* quotes; the message text when that is empty or the LLM raises.
_extract_search_query(content, llm) ==
    IF llm.kind = "raise" THEN [raised |-> FALSE, value |-> content]
    ELSE LET query == strip(strip(llm.content, Whitespace), {"\"", "'"})
         IN  [raised |-> FALSE, value |-> IF query # "" THEN query ELSE content]

\* _perform_search: the port's results, [] when the port raises.
_perform_search_uncaught(search) ==
    [raised |-> search.kind = "raise", value |-> search.results]

_perform_search(search) ==
    IF search.kind = "raise" THEN [raised |-> FALSE, value |-> << >>]
    ELSE [raised |-> FALSE, value |-> search.results]

\* One entry of the fallback listing.
FallbackEntry(i, result) ==
    ToString(i) \o ". **" \o result.title \o "**\n"
    \o (IF result.snippet # "" THEN "   " \o result.snippet \o "\n" ELSE "")
    \o (IF result.url # "" THEN "   Fuente: " \o result.url \o "\n" ELSE "")
    \o "\n"

RECURSIVE FallbackEntries(_, _)
FallbackEntries(results, i) ==
    IF i > Len(results) \/ i > 3 THEN ""
    ELSE FallbackEntry(i, results[i]) \o FallbackEntries(results, i + 1)

\* _generate_fallback_response
WebFallbackResponse(search_results, search_query) ==
    IF Len(search_results) = 0
    THEN "No pude encontrar resultados relevantes para '" \o search_query
         \o "'. Te sugiero probar con términos más específicos o contactar directamente con proveedores especializados en IoT y riego."
    ELSE "Encontré " \o ToString(Len(search_results)) \o " resultados para '"
         \o search_query \o "':\n\n"
         \o FallbackEntries(search_results, 1)
         \o "¿Te gustaría que profundice en alguno de estos resultados?"

WebSearchProcessMessage(content, llm_extract, search, llm_answer) ==
    LET failed == [raised |-> TRUE, content |-> "", should_switch_agent |-> FALSE,
                   target_agent_type |-> "none"]
        search_query == _extract_search_query(content, llm_extract)
    IN  IF search_query.raised THEN failed
        ELSE LET search_results == _perform_search(search)
             IN  IF search_results.raised THEN failed
                 ELSE LET response_content ==
                              LlmOrFallback(llm_answer,
                                  WebFallbackResponse(search_results.value,
                                                      search_query.value))
                      IN  [raised |-> response_content.raised,
                           content |-> response_content.value,
                           should_switch_agent |-> FALSE,
                           target_agent_type |-> "none"]

\* ------------------------------------------ the agents called directly
\* process_message of the agent registered for `agent`; llm gives the outcome
\* of the agent's first and second LLM call.
ProcessMessageOf(agent, content, llm, failing, search) ==
    IF agent = COORDINATOR
    THEN LET response == PejaProcessMessage(content, llm[1].kind # "raise")
         IN  [raised |-> FALSE, content |-> response.content,
              should_switch_agent |-> response.should_switch_agent,
              target_agent_type |-> response.target_agent_type]
    ELSE IF agent = LOCAL_ASSISTANT
    THEN LocalAssistantProcessMessage(content, failing, llm[1])
    ELSE WebSearchProcessMessage(content, llm[1], search, llm[2])

\* The outcomes of an LLM call whose text is used as it is.
LlmAnswers == {l \in LlmPortOutcomes : l.content \in {"", "Con gusto."}}

\* Inputs that the called agent does not use are left at their neutral value.
AgentRunInputs ==
    {[agent |-> COORDINATOR, content |-> c, llm |-> <<l, l>>, failing |-> {},
      search |-> [kind |-> "results", results |-> << >>]] :
        c \in AgentContents, l \in LlmAnswers}
    \cup
    {[agent |-> LOCAL_ASSISTANT, content |-> c, llm |-> <<l, l>>, failing |-> f,
      search |-> [kind |-> "results", results |-> << >>]] :
        c \in AgentContents, l \in LlmAnswers, f \in SUBSET LocalKnowledgeCalls}
    \cup
    {[agent |-> WEB_SEARCH, content |-> c, llm |-> <<l1, l2>>, failing |-> {},
      search |-> s] :
        c \in AgentContents, l1 \in LlmPortOutcomes, l2 \in LlmAnswers,
        s \in SearchPortOutcomes}

\* process_message on every input.
AgentResults ==
    Tabulated([i \in AgentRunInputs |->
                  ProcessMessageOf(i.agent, i.content, i.llm, i.failing, i.search)])

AgentRun(i) ==
    /\ agent_run' = [agent |-> i.agent, content |-> i.content, llm |-> i.llm,
                     failing |-> i.failing, search |-> i.search,
                     result |-> AgentResults[i]]
    /\ UNCHANGED <<chatVars, httpVars, repo, gemini, routing, health_req, web_client, domain_entities,
                   device_refs,
                   device_clock,
                   recent_run,
                   wired_run,
                   handoff_run,
                   app>>

AgentNext == \E i \in AgentRunInputs : AgentRun(i)

AgentSpec == Init /\ [][AgentNext]_vars

\* ------------------------------------------------------------------ C11
\* A failure of a call on the client: the SDK client could not be
\* initialised (it is still None after the call) or generate_content raised.
LlmFailure == gemini.client = None \/ gemini.last.sdk.kind = "raise"

\* C11: GeminiClient.generate_response never propagates an exception: on any
\* failure, including a failed initialisation of the SDK client on first use,
\* it returns the Spanish fallback response with tokens_used 0 and an error
\* entry in metadata; and health_check returns false exactly when such a
\* failure occurred.
C11_GenerateResponseNeverRaises ==
    /\ gemini.last.op = "generate_response" =>
          /\ ~gemini.last.raised
          /\ LlmFailure =>
                /\ gemini.last.response.content = FALLBACK_CONTENT
                /\ gemini.last.response.tokens_used = 0
                /\ gemini.last.response.error
    /\ gemini.last.op = "health_check" =>
          /\ ~gemini.last.raised
          /\ gemini.last.healthy <=> ~LlmFailure

\* ------------------------------------------------------------------ C12
\* C12: whichever of its external ports raise (the LLM client at either
\* call, any of the local-knowledge calls, the web search), process_message
\* of each of the three agents returns a response with a text content and
\* propagates no error; only the coordinator returns should_switch_agent.
C12_AgentsDegradeLocally ==
    agent_run.agent # "none" =>
        /\ ~agent_run.result.raised
        /\ agent_run.result.content \in STRING
        /\ agent_run.result.should_switch_agent => agent_run.agent = COORDINATOR

\* The web search agent answered although both LLM calls and the search raised.
C12_Witness ==
    /\ agent_run.agent = WEB_SEARCH
    /\ agent_run.llm[1].kind = "raise" /\ agent_run.llm[2].kind = "raise"
    /\ agent_run.search.kind = "raise"
    /\ ~agent_run.result.raised
    /\ agent_run.result.content = WebFallbackResponse(<< >>, agent_run.content)

\* ------------------------------------------------------------------ C13
AnyKeyword(keywords, text) == \E k \in keywords : Contains(text, k)

\* The hand-off target the claim describes for a message text.
C13_Target(content) ==
    IF AnyKeyword(web_search_keywords, lower(content)) THEN WEB_SEARCH
    ELSE IF AnyKeyword(local_keywords \cup {"asistente local", "sistema local"},
                       lower(content))
    THEN LOCAL_ASSISTANT
    ELSE "none"

\* C13: on the lower-cased message a web-search keyword selects web_search
\* even when local keywords match too; otherwise a local keyword or the
\* phrases "asistente local" / "sistema local" select local_assistant;
\* otherwise there is no switch. The target is never coordinator and
\* process_message sets should_switch_agent exactly when a target was chosen.
\* (The code's last rule, on the explicit web phrases, never decides: each
\* of its phrases contains a web-search keyword.)
C13_HandOffDecision ==
    /\ \A p \in explicit_web_phrases : AnyKeyword(web_search_keywords, p)
    /\ agent_run.agent = COORDINATOR =>
          /\ agent_run.result.target_agent_type = C13_Target(agent_run.content)
          /\ agent_run.result.target_agent_type # COORDINATOR
          /\ agent_run.result.should_switch_agent
                <=> agent_run.result.target_agent_type # "none"

\* A message with both a web keyword and a local keyword, in upper case.
C13_Witness ==
    /\ agent_run.agent = COORDINATOR
    /\ agent_run.content = "Busca datos del SENSOR"
    /\ AnyKeyword(local_keywords, lower(agent_run.content))
    /\ agent_run.result.should_switch_agent
    /\ agent_run.result.target_agent_type = WEB_SEARCH

\* ------------------------------------------------ usecases/agent_orchestrator.py
\* Lists of _analyze_message_for_routing.
local_action_verbs ==
    {"muestra", "ver", "revisar", "verificar", "consultar", "comprobar",
     "monitorear", "supervisar", "activar", "desactivar", "encender",
     "apagar", "configurar", "ajustar", "modificar", "cambiar",
     "programar", "obtener", "listar", "mostrar", "reportar"}
web_search_verbs ==
    {"buscar", "encontrar", "investigar", "explorar", "averiguar",
     "indagar", "aprender", "estudiar", "entender", "explicar",
     "enseñar", "informar", "busca", "búsqueda"}
iot_domain_keywords ==
    {"dispositivo", "sensor", "temperatura", "humedad", "riego",
     "estado", "datos", "sistema", "configuración", "alarma",
     "medición", "lectura", "valor", "umbral"}
web_research_keywords ==
    {"google", "internet", "web", "online", "información",
     "documentación", "manual", "tutorial", "guía", "wikipedia",
     "artículo", "estudio", "investigación"}
colombian_local == {"cómo va", "qué tal", "de una", "ya mismo"}
colombian_web == {"hacer el favor", "colaborar"}

\* A regular expression  ¿?<head>.*(?:<a1>|<a2>|..)  as its head and its
\* alternatives; a pattern without a tail has the one alternative "".
Pattern(head, alternatives) == [head |-> head, alternatives |-> alternatives]

local_question_patterns ==
    {Pattern("qué", {"temperatura", "humedad", "estado", "dispositivo", "sensor"}),
     Pattern("cuál", {"sensor", "dispositivo", "configuración", "valor"}),
     Pattern("cómo está", {"sistema", "riego", "sensor", "dispositivo"}),
     Pattern("cuándo", {"último", "riego", "medición", "dato"})}
web_search_patterns ==
    {Pattern("cómo", {"funciona", "instalar", "configurar", "usar", "hacer", "se"}),
     Pattern("por qué", {"es importante", "funciona", "se usa"}),
     Pattern("qué es", {"un", "una", "el", "la"}),
     Pattern("para qué sirve", {""})}

\* s[i..] starts with k
StartsAt(s, i, k) == i + Len(k) - 1 <= Len(s) /\ SubSeq(s, i, i + Len(k) - 1) = k

\* re.search(pattern, text): the head occurs, and after it, with no line
\* break in between ('.' does not match a newline), one of the alternatives.
re_search(pattern, text) ==
    \E i \in 1..Len(text) :
        /\ StartsAt(text, i, pattern.head)
        /\ \E a \in pattern.alternatives :
               \E j \in (i + Len(pattern.head))..(Len(text) + 1) :
                   /\ StartsAt(text, j, a)
                   /\ \A n \in (i + Len(pattern.head))..(j - 1) :
                          SubSeq(text, n, n) # "\n"

_analyze_message_for_routing_verbs_first(content) ==
    LET content_lower == lower(content)
        has_local_verb == AnyWordIn(local_action_verbs, content_lower)
        has_web_verb == AnyWordIn(web_search_verbs, content_lower)
        has_iot_context == AnyWordIn(iot_domain_keywords, content_lower)
        has_web_context == AnyWordIn(web_research_keywords, content_lower)
    IN  IF AnyWordIn(colombian_local, content_lower) THEN LOCAL_ASSISTANT
        ELSE IF AnyWordIn(colombian_web, content_lower) THEN WEB_SEARCH
        ELSE IF has_local_verb /\ has_iot_context THEN LOCAL_ASSISTANT
        ELSE IF has_web_verb \/ has_web_context THEN WEB_SEARCH
        ELSE IF \E p \in local_question_patterns : re_search(p, content_lower)
        THEN LOCAL_ASSISTANT
        ELSE IF \E p \in web_search_patterns : re_search(p, content_lower)
        THEN WEB_SEARCH
        ELSE IF has_iot_context /\ ~has_web_context THEN LOCAL_ASSISTANT
        ELSE COORDINATOR

_analyze_message_for_routing(content) ==
    LET content_lower == lower(content)
        has_local_verb == AnyWordIn(local_action_verbs, content_lower)
        has_web_verb == AnyWordIn(web_search_verbs, content_lower)
        has_iot_context == AnyWordIn(iot_domain_keywords, content_lower)
        has_web_context == AnyWordIn(web_research_keywords, content_lower)
    IN  IF AnyWordIn(colombian_local, content_lower) THEN LOCAL_ASSISTANT
        ELSE IF AnyWordIn(colombian_web, content_lower) THEN WEB_SEARCH
        ELSE IF \E p \in local_question_patterns : re_search(p, content_lower)
        THEN LOCAL_ASSISTANT
        ELSE IF \E p \in web_search_patterns : re_search(p, content_lower)
        THEN WEB_SEARCH
        ELSE IF has_local_verb /\ has_iot_context THEN LOCAL_ASSISTANT
        ELSE IF has_web_verb \/ has_web_context THEN WEB_SEARCH
        ELSE IF has_iot_context /\ ~has_web_context THEN LOCAL_ASSISTANT
        ELSE COORDINATOR

\* Lists of _calculate_confidence_score.
web_verbs == {"buscar", "investigar", "aprender", "estudiar", "explicar"}
web_keywords == {"información", "documentación", "manual", "tutorial", "guía"}
web_patterns ==
    {Pattern("cómo", {"funciona"}), Pattern("qué es", {""}), Pattern("por qué", {""})}
local_verbs == {"muestra", "ver", "revisar", "activar", "configurar", "obtener"}
iot_keywords == {"dispositivo", "sensor", "temperatura", "humedad", "riego", "estado"}
local_patterns ==
    {Pattern("qué", {"temperatura", "estado"}), Pattern("cómo está", {"sistema"})}

Min(a, b) == IF a <= b THEN a ELSE b

\* sum(1 for w in words if w in content_lower)
Matches(words, content_lower) == Cardinality({w \in words : Contains(content_lower, w)})

PatternMatches(patterns, content_lower) ==
    Cardinality({p \in patterns : re_search(p, content_lower)})

\* The score of one target's indicator lists, in hundredths (0.5 is 50).
ScoreFor_unclamped(verbs, keywords, patterns, idioms, content_lower) ==
    50 + Min(Matches(verbs, content_lower) * 20, 40)
       + Min(Matches(keywords, content_lower) * 15, 30)
       + Min(PatternMatches(patterns, content_lower) * 25, 50)
       + (IF AnyWordIn(idioms, content_lower) THEN 30 ELSE 0)

ScoreFor(verbs, keywords, patterns, idioms, content_lower) ==
    Min(50 + Min(Matches(verbs, content_lower) * 20, 40)
           + Min(Matches(keywords, content_lower) * 15, 30)
           + Min(PatternMatches(patterns, content_lower) * 25, 50)
           + (IF AnyWordIn(idioms, content_lower) THEN 30 ELSE 0),
        100)

\* _calculate_confidence_score, in hundredths.
_calculate_confidence_score(content, agent_type) ==
    IF agent_type = WEB_SEARCH
    THEN ScoreFor(web_verbs, web_keywords, web_patterns, colombian_web, lower(content))
    ELSE IF agent_type = LOCAL_ASSISTANT
    THEN ScoreFor(local_verbs, iot_keywords, local_patterns, colombian_local,
                  lower(content))
    ELSE 70

\* is_agent_available (agent_registry.py): the type has a registered agent.
is_agent_available(registered, agent_type) == agent_type \in registered

\* route_task: [selected_agent_type, confidence_score (hundredths)]
route_task(content, preferred, registered) ==
    IF preferred # "none" /\ is_agent_available(registered, preferred)
    THEN [selected |-> preferred, score |-> 100]
    ELSE LET analyzed == _analyze_message_for_routing(content)
             best_agent_type == IF is_agent_available(registered, analyzed)
                                THEN analyzed ELSE COORDINATOR
         IN  [selected |-> best_agent_type,
              score |-> _calculate_confidence_score(content, best_agent_type)]

\* Message texts for the routing heuristics.
RoutingContents ==
    {"¿Qué temperatura hay en el sensor 3?",
     "cómo va el riego",
     "hacer el favor de revisar el sensor",
     "qué tal, hacer el favor",
     "¿Cómo funciona el sensor de humedad?",
     "¿qué es un sensor?",
     "¿qué es una API?",
     "revisar el estado",
     "buscar información",
     "buscar, investigar y aprender con un manual",
     "el sensor",
     "hola",
     "mostrar el manual del sensor",
     "manual del sensor",
     "Buscar el dispositivo",
     "cómo\nfunciona",
     "ver temperatura, humedad y estado: qué tal",
     "¿cómo configurar el sensor?",
     "¿qué información hay del sensor?",
     "buscar y aprender con un manual"}

\* The heuristics on every text.
AnalyzedRouting ==
    Tabulated([c \in RoutingContents |-> _analyze_message_for_routing(c)])

ConfidenceScores ==
    Tabulated([x \in RoutingContents \X AgentType |->
                  _calculate_confidence_score(x[1], x[2])])

RoutedTasks ==
    Tabulated([x \in RoutingContents \X (AgentType \cup {"none"}) \X (SUBSET AgentType) |->
                  route_task(x[1], x[2], x[3])])

AnalyzeMessageForRouting(content) ==
    /\ routing' = [NoRouting EXCEPT !.op = "_analyze_message_for_routing",
                                    !.content = content,
                                    !.selected = AnalyzedRouting[content]]
    /\ UNCHANGED <<chatVars, httpVars, repo, gemini, agent_run, health_req, web_client, domain_entities,
                   device_refs,
                   device_clock,
                   recent_run,
                   wired_run,
                   handoff_run,
                   app>>

CalculateConfidenceScore(content, agent_type) ==
    /\ routing' = [NoRouting EXCEPT !.op = "_calculate_confidence_score",
                                    !.content = content,
                                    !.agent_type = agent_type,
                                    !.score = ConfidenceScores[<<content, agent_type>>]]
    /\ UNCHANGED <<chatVars, httpVars, repo, gemini, agent_run, health_req, web_client, domain_entities,
                   device_refs,
                   device_clock,
                   recent_run,
                   wired_run,
                   handoff_run,
                   app>>

RouteTask(content, preferred, registered) ==
    /\ routing' = [NoRouting EXCEPT !.op = "route_task",
                                    !.content = content,
                                    !.preferred = preferred,
                                    !.registered = registered,
                                    !.selected = RoutedTasks[<<content, preferred, registered>>].selected,
                                    !.score = RoutedTasks[<<content, preferred, registered>>].score]
    /\ UNCHANGED <<chatVars, httpVars, repo, gemini, agent_run, health_req, web_client, domain_entities,
                   device_refs,
                   device_clock,
                   recent_run,
                   wired_run,
                   handoff_run,
                   app>>

OrchestratorNext ==
    \/ \E c \in RoutingContents : AnalyzeMessageForRouting(c)
    \/ \E c \in RoutingContents, t \in AgentType : CalculateConfidenceScore(c, t)
    \/ \E c \in RoutingContents, p \in AgentType \cup {"none"}, r \in SUBSET AgentType :
           RouteTask(c, p, r)

OrchestratorSpec == Init /\ [][OrchestratorNext]_vars

\* ------------------------------------------------------------------ C14
Rule1(text) == AnyKeyword(colombian_local, text)
Rule2(text) == AnyKeyword(colombian_web, text)
Rule3(text) == \E p \in local_question_patterns : re_search(p, text)
Rule4(text) == \E p \in web_search_patterns : re_search(p, text)

\* The result of the first matching rule, in the order the claim gives.
C14_FirstMatch(text) ==
    IF Rule1(text) THEN LOCAL_ASSISTANT
    ELSE IF Rule2(text) THEN WEB_SEARCH
    ELSE IF Rule3(text) THEN LOCAL_ASSISTANT
    ELSE IF Rule4(text) THEN WEB_SEARCH
    ELSE IF AnyKeyword(local_action_verbs, text) /\ AnyKeyword(iot_domain_keywords, text)
    THEN LOCAL_ASSISTANT
    ELSE IF AnyKeyword(web_search_verbs, text) \/ AnyKeyword(web_research_keywords, text)
    THEN WEB_SEARCH
    ELSE IF AnyKeyword(iot_domain_keywords, text) THEN LOCAL_ASSISTANT
    ELSE COORDINATOR

\* C14: _analyze_message_for_routing returns the result of the first matching
\* rule in the order Colombian local idiom, Colombian web idiom, local
\* question pattern, web question pattern, local verb with IoT keyword, web
\* verb or web keyword, IoT keyword, coordinator; an earlier rule decides
\* whatever the later ones match, and "¿qué temperatura hay en el sensor 3?"
\* goes to the local assistant by its question pattern.
C14_FixedPrecedence ==
    /\ routing.op = "_analyze_message_for_routing" =>
          routing.selected = C14_FirstMatch(lower(routing.content))
    /\ routing.op = "_analyze_message_for_routing"
          /\ lower(routing.content) = "¿qué temperatura hay en el sensor 3?"
          => routing.selected = LOCAL_ASSISTANT

\* A local question pattern decided although a web keyword matches too.
C14_Witness ==
    /\ routing.op = "_analyze_message_for_routing"
    /\ routing.content = "¿qué información hay del sensor?"
    /\ Rule3(lower(routing.content))
    /\ AnyKeyword(web_research_keywords, lower(routing.content))
    /\ routing.selected = LOCAL_ASSISTANT

\* ------------------------------------------------------------------ C15
\* min(1.0, 0.5 + min(0.2v, 0.4) + min(0.15k, 0.3) + min(0.25p, 0.5) + 0.3i),
\* in hundredths.
C15_Formula(v, k, p, i) ==
    Min(100, 50 + Min(20 * v, 40) + Min(15 * k, 30) + Min(25 * p, 50)
                + (IF i THEN 30 ELSE 0))

C15_Expected(text, agent_type) ==
    IF agent_type = WEB_SEARCH
    THEN C15_Formula(Matches(web_verbs, text), Matches(web_keywords, text),
                     PatternMatches(web_patterns, text),
                     AnyKeyword(colombian_web, text))
    ELSE IF agent_type = LOCAL_ASSISTANT
    THEN C15_Formula(Matches(local_verbs, text), Matches(iot_keywords, text),
                     PatternMatches(local_patterns, text),
                     AnyKeyword(colombian_local, text))
    ELSE 70

\* C15: for a web_search or local_assistant target the confidence score is
\* the base 0.5 plus the per-category capped bonuses of that target's lists,
\* clamped to 1.0; for the coordinator it is 0.7; so it always lies in
\* [0.5, 1.0] (two verbs and one keyword give 1.0, clamped from 1.05).
C15_ConfidenceScore ==
    /\ C15_Formula(2, 1, 0, FALSE) = 100
    /\ routing.op = "_calculate_confidence_score" =>
          /\ routing.score = C15_Expected(lower(routing.content), routing.agent_type)
          /\ routing.score >= 50 /\ routing.score <= 100
          /\ routing.agent_type = COORDINATOR => routing.score = 70

\* Two matched verbs and one matched keyword: 1.05 before the clamp.
C15_Witness ==
    /\ routing.op = "_calculate_confidence_score"
    /\ routing.agent_type = WEB_SEARCH
    /\ Matches(web_verbs, lower(routing.content)) = 2
    /\ Matches(web_keywords, lower(routing.content)) = 1
    /\ routing.score = 100

\* ------------------------------------ presentation/http/handlers/health_handler.py
required_settings == <<"host", "port", "environment">>

\* _check_configuration: `missing` are the required settings the settings
\* object lacks (hasattr is false).
_check_configuration(missing) ==
    IF \E i \in 1..Len(required_settings) : required_settings[i] \in missing
    THEN "unhealthy" ELSE "healthy"

\* _check_logging: unhealthy when get_logger(..).info(..) raises.
_check_logging(logging_raises) == IF logging_raises THEN "unhealthy" ELSE "healthy"

_check_components(missing, logging_raises) ==
    [configuration |-> _check_configuration(missing),
     logging |-> _check_logging(logging_raises)]

critical_components == {"configuration", "logging"}

\* ready(): HTTPException(503) at the first critical component that is not
\* healthy; the framework answers an HTTPException of a handler with its status.
ready(missing, logging_raises) ==
    LET components == _check_components(missing, logging_raises)
    IN  IF \E c \in critical_components : components[c] # "healthy"
        THEN [outcome |-> Response(503), body |-> NoBody]
        ELSE [outcome |-> Response(200), body |-> [NoBody EXCEPT !.status = "ready"]]

\* health() and detailed_health() read settings.environment for the body:
\* an AttributeError when the settings object lacks it.
health(missing) ==
    IF "environment" \in missing
    THEN [outcome |-> Raised(500, 0), body |-> NoBody]
    ELSE [outcome |-> Response(200), body |-> [NoBody EXCEPT !.status = "healthy"]]

detailed_health(missing, logging_raises) ==
    LET components == _check_components(missing, logging_raises)
        overall_status == IF \A c \in DOMAIN components : components[c] = "healthy"
                          THEN "healthy" ELSE "unhealthy"
    IN  IF "environment" \in missing
        THEN [outcome |-> Raised(500, 0), body |-> NoBody]
        ELSE [outcome |-> Response(200),
              body |-> [status |-> overall_status, message |-> "",
                        components |-> components]]

ping == [outcome |-> Response(200), body |-> [NoBody EXCEPT !.message = "pong"]]

live == [outcome |-> Response(200), body |-> [NoBody EXCEPT !.status = "alive"]]

HealthPaths == {"/health", "/health/detailed", "/ping", "/ready", "/live"}

\* The route of the health router that answers `path`.
HealthHandle(path, missing, logging_raises) ==
    CASE path = "/health" -> health(missing)
      [] path = "/health/detailed" -> detailed_health(missing, logging_raises)
      [] path = "/ping" -> ping
      [] path = "/ready" -> ready(missing, logging_raises)
      [] path = "/live" -> live

\* The forced conditions: the settings object lacks nothing, lacks "host",
\* or lacks "environment".
MissingSettings == {{}, {"host"}, {"environment"}}

HealthClients == {c \in ClientInputs : c.forwarded_for = << >> /\ c.real_ip = ""}

\* A GET on a health endpoint enters LoggingMiddleware and
\* RateLimitMiddleware and runs up to the first await: it is rejected, or
\* dispatch is suspended in call_next.
HealthRequest(path, client) ==
    /\ http.seq < MaxRequests
    /\ LET correlation_id == http.seq + 1
           client_ip == _get_client_ip(client.forwarded_for, client.real_ip, client.host)
           limited == RateLimitDispatch(requests, max_requests, path, client_ip,
                                        now, Suspended)
       IN  /\ requests' = limited.requests
           /\ accepted' = IF limited.recorded
                          THEN _add_request(accepted, client_ip, now)
                          ELSE accepted
           /\ http' = [seq |-> http.seq + 1, path |-> path, client_ip |-> client_ip,
                       correlation_id |-> correlation_id,
                       outcome |-> LoggingDispatch(correlation_id, limited.outcome)]
           /\ limited.outcome = Suspended => Cardinality(in_flight) < MaxInFlight
           /\ in_flight' = IF limited.outcome = Suspended
                           THEN in_flight \cup {[correlation_id |-> correlation_id,
                                                 path |-> path, client_ip |-> client_ip]}
                           ELSE in_flight
           /\ health_req' = [NoHealthRequest EXCEPT !.path = path]
    /\ UNCHANGED <<max_requests, now, repo>>
    /\ UNCHANGED chatVars
    /\ UNCHANGED <<gemini, agent_run, routing, web_client, domain_entities, device_refs, device_clock,
                   recent_run,
                   wired_run,
                   handoff_run,
                   app>>

\* The route of the health router answers a suspended request, under the
\* forced conditions `missing` and `logging_raises`.
HealthResponse(request, missing, logging_raises) ==
    /\ request \in in_flight
    /\ in_flight' = in_flight \ {request}
    /\ LET handled == HealthHandle(request.path, missing, logging_raises)
       IN  /\ http' = [seq |-> http.seq, path |-> request.path,
                       client_ip |-> request.client_ip,
                       correlation_id |-> request.correlation_id,
                       outcome |-> LoggingDispatch(request.correlation_id,
                                                   handled.outcome)]
           /\ health_req' = [path |-> request.path, missing |-> missing,
                             logging_raises |-> logging_raises, body |-> handled.body]
    /\ UNCHANGED <<max_requests, requests, now, accepted, repo>>
    /\ UNCHANGED chatVars
    /\ UNCHANGED <<gemini, agent_run, routing, web_client, domain_entities, device_refs, device_clock,
                   recent_run,
                   wired_run,
                   handoff_run,
                   app>>

\* The providers app/container.py declares on Container.
ContainerProviders ==
    {"config", "settings", "gemini_client", "conversation_repository", "agent_registry",
     "local_knowledge_client", "web_search_client", "peja_coordinator", "local_assistant",
     "web_search_agent", "conversation_manager", "agent_orchestrator", "chat_handler",
     "agent_handler"}

\* app/factory.py _configure_middleware: add_middleware in this order, so the
\* last one added, LoggingMiddleware, is the outermost.
_configure_middleware == <<"CORSMiddleware", "RateLimitMiddleware", "LoggingMiddleware">>

\* app/factory.py _configure_routes: PingHandler(container.ping_service) reads
\* an attribute of the container before any router is included; a container
\* that does not declare it raises AttributeError.
_configure_routes(container) ==
    IF "ping_service" \in container
    THEN [raised |-> "none", routers |-> {"health", "legacy"}]
    ELSE [raised |-> "AttributeError", routers |-> {}]

\* app/factory.py create_app
create_app(container) ==
    LET routes == _configure_routes(container)
    IN  [called |-> TRUE, raised |-> routes.raised, middleware |-> _configure_middleware,
         routers |-> routes.routers]

\* create_app() with the Container of app/container.py. It raises, so no
\* application object is returned: HealthRequest and HealthResponse are the
\* dispatch methods of the two middleware classes and the router of
\* HealthHandler composed in the order _configure_middleware gives them, as a
\* caller that builds the stack itself gets them.
CreateApp ==
    /\ ~app.called
    /\ app' = create_app(ContainerProviders)
    /\ UNCHANGED <<chatVars, httpVars, repo, gemini, agent_run, routing, health_req,
                   web_client, domain_entities, device_refs, device_clock, recent_run,
                   wired_run, handoff_run>>

HealthNext ==
    \/ CreateApp
    \/ \E path \in HealthPaths, client \in HealthClients : HealthRequest(path, client)
    \/ \E request \in in_flight, missing \in MissingSettings, logging_raises \in BOOLEAN :
            HealthResponse(request, missing, logging_raises)
    \/ \E d \in TickSteps : Tick(d)

HealthSpec == HttpInit /\ [][HealthNext]_vars


\* The last request was answered by the health handler (the limiter let it
\* through).
ReachedHealthHandler == http.outcome.kind # "suspended" /\ http.outcome.status # 429

\* C16: with a complete settings object, whatever the state of the rate
\* limiter, GET /health returns 200 with status "healthy", GET /live returns
\* 200 with status "alive" and GET /ping returns 200 with the body
\* {message: "pong"}.
C16_BasicEndpointsAlwaysAnswer ==
    (/\ http.outcome.kind # "suspended"
     /\ health_req.missing = {}
     /\ health_req.path \in {"/health", "/live", "/ping"}) =>
        /\ http.outcome.kind = "response"
        /\ http.outcome.status = 200
        /\ health_req.path = "/health" => health_req.body.status = "healthy"
        /\ health_req.path = "/live" => health_req.body.status = "alive"
        /\ health_req.path = "/ping" => health_req.body.message = "pong"

BothChecksHealthy ==
    /\ _check_configuration(health_req.missing) = "healthy"
    /\ _check_logging(health_req.logging_raises) = "healthy"

\* C17: GET /ready returns 200 with status "ready" exactly when the
\* configuration check and the logging check are both healthy, and 503
\* otherwise; in the same state GET /health/detailed reports a components map
\* with configuration and logging and an overall status "healthy" exactly when
\* /ready would return 200.
C17_ReadyAndDetailedAgree ==
    ReachedHealthHandler =>
        /\ health_req.path = "/ready" =>
              /\ http.outcome.kind = "response"
              /\ BothChecksHealthy =>
                    (http.outcome.status = 200 /\ health_req.body.status = "ready")
              /\ ~BothChecksHealthy => http.outcome.status = 503
        /\ health_req.path = "/health/detailed" =>
              /\ http.outcome.kind = "response"
              /\ DOMAIN health_req.body.components = {"configuration", "logging"}
              /\ (health_req.body.status = "healthy") <=>
                    (ready(health_req.missing, health_req.logging_raises).outcome.status = 200)


\* C18: once startup has completed the registry maps the three agent types
\* and no step changes it afterwards, so the agent of every stored
\* conversation's current type resolves and no call ends with the
\* no-suitable-agent failure; when startup fails after some registrations it
\* never completes and no request is served.
C18_Step ==
    /\ started' => agents' = {COORDINATOR, LOCAL_ASSISTANT, WEB_SEARCH}
    /\ started => (started' /\ agents' = agents)
    /\ started' => \A id \in DOMAIN conversations' :
          get_agent(agents', heap'[conversations'[id]].current_agent_type) # "none"
    /\ \A t \in 1..Len(calls') : calls'[t].outcome # "ValueError_no_agent"
    /\ (~started /\ agents # {}) => ~started'
    /\ ~started' => (calls' = << >> /\ DOMAIN conversations' = {})

C18_RegistryCompleteAfterStartup == [][C18_Step]_vars

\* A turn has completed on a conversation handed to the web search agent,
\* resolved through the registry filled at startup.
C18_Witness ==
    /\ started
    /\ \E t \in 1..Len(calls) :
          /\ CompletedTurn(t)
          /\ calls[t].began = WEB_SEARCH
          /\ calls[t].agent = WEB_SEARCH


\* ------------------------------------ infrastructure/clients/web_search_client.py
PLACEHOLDER_API_KEY == "your-web-search-api-key"

ApiKeys == {"", PLACEHOLDER_API_KEY, "serpapi-key"}

Queries == {"¿Qué es pH?", "a/b&c"}

MaxResultsInputs == {-1, 0, 2, 5}

\* urllib.parse.quote_plus: the characters never quoted, and the UTF-8
\* percent-encoding of the others that occur in Queries.
Unreserved == "ABCDEFGHIJKLMNOPQRSTUVWXYZabcdefghijklmnopqrstuvwxyz0123456789_.-~"

PercentEncode(c) ==
    CASE c = "¿" -> "%C2%BF"
      [] c = "é" -> "%C3%A9"
      [] c = "ú" -> "%C3%BA"
      [] c = "ñ" -> "%C3%B1"
      [] c = "?" -> "%3F"
      [] c = "&" -> "%26"
      [] c = "/" -> "%2F"
      [] c = "+" -> "%2B"

RECURSIVE quote_plus(_)
quote_plus(s) ==
    IF s = "" THEN ""
    ELSE LET c == SubSeq(s, 1, 1)
         IN  (IF c = " " THEN "+"
              ELSE IF Contains(Unreserved, c) THEN c
              ELSE PercentEncode(c)) \o quote_plus(SubSeq(s, 2, Len(s)))

Max(a, b) == IF a >= b THEN a ELSE b

\* seq[:n] of Python: the first n elements, or all but the last -n when n is
\* negative.
SliceTo(seq, n) ==
    IF n >= 0 THEN SubSeq(seq, 1, Min(n, Len(seq)))
    ELSE SubSeq(seq, 1, Max(0, Len(seq) + n))

mock_results(query) ==
    << [title |-> "Información sobre " \o query \o " - Guía Completa",
        url |-> "https://example.com/guia-" \o quote_plus(lower(query)),
        snippet |-> "Encuentra toda la información que necesitas sobre " \o query
                    \o ". Guía completa y actualizada.",
        source |-> "mock_search"],
       [title |-> "Tutorial: " \o query \o " paso a paso",
        url |-> "https://tutoriales.com/" \o quote_plus(lower(query)),
        snippet |-> "Aprende todo sobre " \o query
                    \o " con nuestro tutorial paso a paso y ejemplos prácticos.",
        source |-> "mock_search"],
       [title |-> "FAQ: Preguntas frecuentes sobre " \o query,
        url |-> "https://faq.com/" \o quote_plus(lower(query)),
        snippet |-> "Las preguntas más frecuentes sobre " \o query
                    \o " con respuestas detalladas de expertos.",
        source |-> "mock_search"] >>

_get_mock_search_results_unsliced(query, max_results) == mock_results(query)

_get_mock_search_results(query, max_results) == SliceTo(mock_results(query), max_results)

_get_fallback_results(query) ==
    << [title |-> "Búsqueda no disponible: " \o query,
        url |-> "",
        snippet |-> "Lo siento, el servicio de búsqueda web no está disponible en este momento. Por favor intenta más tarde o contacta al administrador del sistema.",
        source |-> "fallback"] >>

\* What the GET on the search API does: an HTTP error status, a network
\* error, a body that is not the expected JSON, or `organic` organic results.
SearchApiOutcomes ==
    {[kind |-> k, organic |-> 0] : k \in {"status_error", "request_error", "error"}}
    \cup {[kind |-> "ok", organic |-> 2]}

OrganicResult(i) ==
    [title |-> "resultado " \o ToString(i), url |-> "https://sitio.co/" \o ToString(i),
     snippet |-> "texto " \o ToString(i), source |-> "web_search"]

\* search: the results returned and the number of outbound calls made.
search(api_key, query, max_results, api) ==
    IF api_key = "" \/ api_key = PLACEHOLDER_API_KEY
    THEN [results |-> _get_mock_search_results(query, max_results), outbound |-> 0]
    ELSE [results |-> IF api.kind = "ok"
                      THEN SliceTo([i \in 1..api.organic |-> OrganicResult(i)], max_results)
                      ELSE _get_fallback_results(query),
          outbound |-> 1]

SearchResults ==
    Tabulated([i \in ApiKeys \X Queries \X MaxResultsInputs \X SearchApiOutcomes |->
                  search(i[1], i[2], i[3], i[4])])

MaxSearches == 2

\* The GETs one run sends (searches with a key and fetches together).
MaxGets == 1

MaxFetches == 2

Urls == {"https://example.com/guia", "http://10.0.0.9/x"}

\* response.text[:2000]
CONTENT_LIMIT == 2000

RECURSIVE Doubled(_, _)
Doubled(text, n) == IF n = 0 THEN text ELSE LET d == Doubled(text, n - 1) IN d \o d

\* A page of 2560 characters, longer than the limit.
LongText == Doubled("0123456789", 8)

\* What the GET of a page does: an HTTP error status, a network error, any
\* other exception, or a page with this text.
FetchOutcomes ==
    {[kind |-> "status_error", status |-> 404, text |-> ""],
     [kind |-> "request_error", status |-> 0, text |-> ""],
     [kind |-> "error", status |-> 0, text |-> ""],
     [kind |-> "ok", status |-> 200, text |-> "<html>riego</html>"],
     [kind |-> "ok", status |-> 200, text |-> LongText]}

\* The exception of client.get on a closed httpx client (RuntimeError), as the
\* search sees it and as the fetch sees it.
ClientClosedSearch == [kind |-> "error", organic |-> 0]

ClientClosed == [kind |-> "error", status |-> 0, text |-> ""]

\* fetch_url_content: the string returned once the GET has the outcome.
fetch_url_content(url, outcome) ==
    CASE outcome.kind = "ok" -> SubSeq(outcome.text, 1, Min(CONTENT_LIMIT, Len(outcome.text)))
      [] outcome.kind = "status_error" ->
            "Error: Could not fetch content from " \o url \o " (HTTP "
                \o ToString(outcome.status) \o ")"
      [] outcome.kind = "request_error" -> "Error: Could not connect to " \o url
      [] OTHER -> "Error: Unexpected error fetching content from " \o url

\* WebSearchClient(api_key)
NewWebSearchClient(api_key) ==
    /\ ~web_client.constructed
    /\ web_client' = [NoWebSearchClient EXCEPT !.constructed = TRUE, !.api_key = api_key]
    /\ UNCHANGED <<chatVars, httpVars, repo, gemini, agent_run, routing, health_req,
                   domain_entities,
                   device_refs,
                   device_clock,
                   recent_run,
                   wired_run,
                   handoff_run,
                   app>>

\* await client.search(query, max_results), up to the await of client.get:
\* without a key the mock results are returned at once; a closed client raises
\* in client.get and the fallback results are returned; otherwise the GET is
\* sent and the call is suspended.
WebSearch(query, max_results) ==
    /\ web_client.constructed
    /\ Len(web_client.searches)
          + Cardinality({k \in 1..Len(web_client.suspended) :
                            web_client.suspended[k].op = "search"}) < MaxSearches
    /\ IF web_client.api_key = "" \/ web_client.api_key = PLACEHOLDER_API_KEY
       THEN web_client' = [web_client EXCEPT
               !.searches = Append(@, [query |-> query, max_results |-> max_results,
                                       results |-> SearchResults[<<web_client.api_key, query,
                                                       max_results, ClientClosedSearch>>].results,
                                       outbound |-> 0])]
       ELSE IF web_client.closed
       THEN web_client' = [web_client EXCEPT
               !.searches = Append(@, [query |-> query, max_results |-> max_results,
                                       results |-> SearchResults[<<web_client.api_key, query,
                                                       max_results, ClientClosedSearch>>].results,
                                       outbound |-> 0])]
       ELSE /\ web_client.outbound < MaxGets
            /\ web_client' = [web_client EXCEPT
                   !.outbound = @ + 1,
                   !.suspended = Append(@, [op |-> "search", target |-> query,
                                            max_results |-> max_results])]
    /\ UNCHANGED <<chatVars, httpVars, repo, gemini, agent_run, routing, health_req,
                   domain_entities,
                   device_refs,
                   device_clock,
                   recent_run,
                   wired_run,
                   handoff_run,
                   app>>

\* The GET of the k-th suspended call, a search, completes: search resumes and
\* returns.
WebSearchReturns(k, api) ==
    /\ k \in 1..Len(web_client.suspended)
    /\ web_client.suspended[k].op = "search"
    /\ LET call == web_client.suspended[k]
           r == SearchResults[<<web_client.api_key, call.target, call.max_results, api>>]
       IN  web_client' = [web_client EXCEPT
               !.suspended = SubSeq(@, 1, k - 1) \o SubSeq(@, k + 1, Len(@)),
               !.searches = Append(@, [query |-> call.target,
                                       max_results |-> call.max_results,
                                       results |-> r.results, outbound |-> r.outbound])]
    /\ UNCHANGED <<chatVars, httpVars, repo, gemini, agent_run, routing, health_req,
                   domain_entities,
                   device_refs,
                   device_clock,
                   recent_run,
                   wired_run,
                   handoff_run,
                   app>>

\* await client.fetch_url_content(url), up to the await of client.get: the
\* GET is sent whatever the key; a closed client raises in client.get.
FetchUrlContent(url) ==
    /\ web_client.constructed
    /\ Len(web_client.fetches)
          + Cardinality({k \in 1..Len(web_client.suspended) :
                            web_client.suspended[k].op = "fetch_url_content"}) < MaxFetches
    /\ IF web_client.closed
       THEN web_client' = [web_client EXCEPT
               !.fetches = Append(@, [url |-> url,
                                      content |-> fetch_url_content(url, ClientClosed)])]
       ELSE /\ web_client.outbound < MaxGets
            /\ web_client' = [web_client EXCEPT
                   !.outbound = @ + 1,
                   !.suspended = Append(@, [op |-> "fetch_url_content", target |-> url,
                                            max_results |-> 0])]
    /\ UNCHANGED <<chatVars, httpVars, repo, gemini, agent_run, routing, health_req,
                   domain_entities,
                   device_refs,
                   device_clock,
                   recent_run,
                   wired_run,
                   handoff_run,
                   app>>

\* The GET of the k-th suspended call, a fetch, completes.
FetchUrlContentReturns(k, outcome) ==
    /\ k \in 1..Len(web_client.suspended)
    /\ web_client.suspended[k].op = "fetch_url_content"
    /\ LET call == web_client.suspended[k]
       IN  web_client' = [web_client EXCEPT
               !.suspended = SubSeq(@, 1, k - 1) \o SubSeq(@, k + 1, Len(@)),
               !.fetches = Append(@, [url |-> call.target,
                                      content |-> fetch_url_content(call.target, outcome)])]
    /\ UNCHANGED <<chatVars, httpVars, repo, gemini, agent_run, routing, health_req,
                   domain_entities,
                   device_refs,
                   device_clock,
                   recent_run,
                   wired_run,
                   handoff_run,
                   app>>

\* await client.close()
CloseWebSearchClient ==
    /\ web_client.constructed
    /\ ~web_client.closed
    /\ web_client' = [web_client EXCEPT !.closed = TRUE]
    /\ UNCHANGED <<chatVars, httpVars, repo, gemini, agent_run, routing, health_req,
                   domain_entities,
                   device_refs,
                   device_clock,
                   recent_run,
                   wired_run,
                   handoff_run,
                   app>>

WebClientNext ==
    \/ \E api_key \in ApiKeys : NewWebSearchClient(api_key)
    \/ \E query \in Queries, max_results \in MaxResultsInputs : WebSearch(query, max_results)
    \/ \E k \in 1..MaxGets + 1, api \in SearchApiOutcomes : WebSearchReturns(k, api)

WebClientSpec == Init /\ [][WebClientNext]_vars

WebFetchNext ==
    \/ WebClientNext
    \/ \E url \in Urls : FetchUrlContent(url)
    \/ \E k \in 1..MaxGets + 1, outcome \in FetchOutcomes : FetchUrlContentReturns(k, outcome)
    \/ CloseWebSearchClient

WebFetchSpec == Init /\ [][WebFetchNext]_vars

MockClient ==
    web_client.constructed /\ web_client.api_key \in {"", PLACEHOLDER_API_KEY}

\* The results are labelled as mock results and their titles and URLs carry
\* the query text.
MockResultsOf(s) ==
    \A k \in 1..Len(s.results) :
        /\ s.results[k].source = "mock_search"
        /\ Contains(s.results[k].title, s.query)
        /\ Contains(s.results[k].url, quote_plus(lower(s.query)))

\* C19 as stated: a client without a key (or with the placeholder key) returns
\* exactly 3 mock results derived from the query for any search, makes no
\* outbound call, and two searches with the same query return equal lists.
C19_ExactlyThreeMockResults ==
    MockClient =>
        /\ \A i \in 1..Len(web_client.searches) :
              /\ web_client.searches[i].outbound = 0
              /\ Len(web_client.searches[i].results) = 3
              /\ MockResultsOf(web_client.searches[i])
        /\ \A i, j \in 1..Len(web_client.searches) :
              web_client.searches[i].query = web_client.searches[j].query =>
                  web_client.searches[i].results = web_client.searches[j].results

\* C19, amended: a client without a key (or with the placeholder key) returns
\* the first max_results of 3 mock results derived from the query (all 3 when
\* max_results is 3 or more, all but the last -max_results when it is
\* negative), makes no outbound call, and two searches with the same query and
\* max_results return equal lists.
C19_MockResultsSliced ==
    MockClient =>
        /\ \A i \in 1..Len(web_client.searches) :
              LET s == web_client.searches[i]
              IN  /\ s.outbound = 0
                  /\ Len(s.results) = IF s.max_results >= 0 THEN Min(s.max_results, 3)
                                      ELSE Max(0, 3 + s.max_results)
                  /\ s.max_results >= 3 => Len(s.results) = 3
                  /\ MockResultsOf(s)
        /\ \A i, j \in 1..Len(web_client.searches) :
              LET s == web_client.searches[i]
                  t == web_client.searches[j]
              IN  s.query = t.query =>
                     /\ s.max_results = t.max_results => s.results = t.results
                     /\ \A k \in 1..Min(Len(s.results), Len(t.results)) :
                            s.results[k] = t.results[k]

\* The placeholder key, two searches for the same query: the default
\* max_results gives three results, max_results = 2 gives the first two.
C19_Witness ==
    /\ web_client.constructed
    /\ web_client.api_key = PLACEHOLDER_API_KEY
    /\ Len(web_client.searches) = 2
    /\ web_client.searches[1].query = "¿Qué es pH?"
    /\ web_client.searches[2].query = "¿Qué es pH?"
    /\ web_client.searches[1].max_results = 5
    /\ Len(web_client.searches[1].results) = 3
    /\ web_client.searches[1].results[1].url = "https://example.com/guia-%C2%BFqu%C3%A9+es+ph%3F"
    /\ web_client.searches[2].max_results = 2
    /\ Len(web_client.searches[2].results) = 2
    /\ web_client.outbound = 0


\* ------------------------------------------------------ domain/entities/device.py
\* seq[-n:] of Python for n > 0: the last n elements, all of them when there
\* are fewer.
LastOf(seq, n) == SubSeq(seq, Max(1, Len(seq) - n + 1), Len(seq))

add_sensor_data_keeping_first(sensor_data, reading) ==
    LET appended_data == Append(sensor_data, reading)
    IN  IF Len(appended_data) > 100 THEN SubSeq(appended_data, 1, 100) ELSE appended_data

add_sensor_data(sensor_data, reading) ==
    LET appended_data == Append(sensor_data, reading)
    IN  IF Len(appended_data) > 100 THEN LastOf(appended_data, 100) ELSE appended_data

\* The n-th SensorData handed to the device; readings differ by their number.
Reading(n) == [sensor_type |-> "soil_moisture", value |-> n, unit |-> "%"]

\* ------------------------------------------------ domain/entities/conversation.py
add_to_history(conversation_history, message, entities) ==
    LET appended_history == Append(conversation_history,
                                   [message |-> message, entities |-> entities])
    IN  IF Len(appended_history) > 20 THEN LastOf(appended_history, 20)
        ELSE appended_history

\* The n-th message recorded in the context.
HistoryMessage(n) == "mensaje " \o ToString(n)

MaxSensorReadings == 102

MaxHistoryEntries == 22

\* No is_responsive call has been made since the device last changed.
NotAsked == [made |-> FALSE, timeout_minutes |-> 0, result |-> FALSE]

\* device.add_sensor_data(SensorData(...)): the reading is appended, the list
\* cut to its last 100, and updated_at set to the time of the call.
AddSensorData ==
    /\ domain_entities.device.calls < MaxSensorReadings
    /\ domain_entities' = [domain_entities EXCEPT
          !.device.calls = @ + 1,
          !.device.sensor_data =
              add_sensor_data(@, Reading(domain_entities.device.calls + 1))]
    /\ device_clock' = [device_clock EXCEPT !.updated_at = device_clock.now,
                                            !.asked = NotAsked]
    /\ UNCHANGED <<chatVars, httpVars, repo, gemini, agent_run, routing, health_req,
                   web_client,
                   device_refs,
                   recent_run,
                   wired_run,
                   handoff_run,
                   app>>

\* context.add_to_history(message, entities)
AddToHistory ==
    /\ domain_entities.context.calls < MaxHistoryEntries
    /\ domain_entities' = [domain_entities EXCEPT
          !.context.calls = @ + 1,
          !.context.conversation_history =
              add_to_history(@, HistoryMessage(domain_entities.context.calls + 1), << >>)]
    /\ UNCHANGED <<chatVars, httpVars, repo, gemini, agent_run, routing, health_req,
                   web_client,
                   device_refs,
                   device_clock,
                   recent_run,
                   wired_run,
                   handoff_run,
                   app>>

EntityNext == AddSensorData \/ AddToHistory

EntitySpec == Init /\ [][EntityNext]_vars

\* C20: after any number of add_sensor_data calls the device holds the most
\* recent min(calls, 100) readings in insertion order, and after any number of
\* add_to_history calls the context holds the most recent min(calls, 20)
\* entries in order.
C20_KeepLastN ==
    LET device == domain_entities.device
        context == domain_entities.context
    IN  /\ Len(device.sensor_data) = Min(device.calls, 100)
        /\ \A k \in 1..Len(device.sensor_data) :
              device.sensor_data[k] =
                  Reading(device.calls - Len(device.sensor_data) + k)
        /\ Len(context.conversation_history) = Min(context.calls, 20)
        /\ \A k \in 1..Len(context.conversation_history) :
              context.conversation_history[k].message =
                  HistoryMessage(context.calls - Len(context.conversation_history) + k)

\* The 101st reading has evicted the first one, and the 21st history entry
\* the first entry.
C20_Witness ==
    /\ domain_entities.device.calls = 101
    /\ Len(domain_entities.device.sensor_data) = 100
    /\ domain_entities.device.sensor_data[1] = Reading(2)
    /\ domain_entities.device.sensor_data[100] = Reading(101)
    /\ domain_entities.context.calls = 21
    /\ Len(domain_entities.context.conversation_history) = 20
    /\ domain_entities.context.conversation_history[1].message = HistoryMessage(2)

\* ------------------------------- domain/entities/conversation.py (device references)
DeviceNames == {"bomba", "valvula 1", "valvula 2", "sensor norte", "sensor sur", "tanque"}

InSeq(seq, x) == \E k \in 1..Len(seq) : seq[k] = x

Without(seq, x) == SelectSeq(seq, LAMBDA y : y # x)

add_device_reference(devices, device_name) ==
    IF ~InSeq(devices, device_name)
    THEN LET added == Append(devices, device_name)
         IN  IF Len(added) > 5 THEN LastOf(added, 5) ELSE added
    ELSE devices

\* context.add_device_reference(device_name); `mentioned` keeps the distinct
\* names in the order of their last mention.
AddDeviceReference(device_name) ==
    /\ device_refs' =
          [last_mentioned_devices |->
               add_device_reference(device_refs.last_mentioned_devices, device_name),
           mentioned |-> Append(Without(device_refs.mentioned, device_name), device_name)]
    /\ UNCHANGED <<chatVars, httpVars, repo, gemini, agent_run, routing, health_req,
                   web_client, domain_entities,
                   device_clock,
                   recent_run,
                   wired_run,
                   handoff_run,
                   app>>

ContextNext == \E device_name \in DeviceNames : AddDeviceReference(device_name)

ContextSpec == Init /\ [][ContextNext]_vars

Elements(seq) == {seq[k] : k \in 1..Len(seq)}

\* C21: last_mentioned_devices has no duplicates, at most 5 entries, and holds
\* exactly the (up to) 5 most recently mentioned distinct device names, also
\* when a device already in the list is mentioned again.
C21_MostRecentlyMentioned ==
    LET devices == device_refs.last_mentioned_devices
    IN  /\ Len(devices) <= 5
        /\ \A i, j \in 1..Len(devices) : devices[i] = devices[j] => i = j
        /\ Elements(devices) = Elements(LastOf(device_refs.mentioned, 5))

\* ---------------------------------------- domain/entities/device.py (responsiveness)
DeviceStatuses == {"online", "offline", "unknown", "error"}

\* update_status on the fields it writes, at clock reading `current`.
update_status(device, status, current) ==
    [device EXCEPT
        !.status = status,
        !.last_seen = IF status = "online" THEN [set |-> TRUE, at |-> current] ELSE @,
        !.updated_at = current]

is_responsive_inclusive(last_seen, timeout_minutes, current) ==
    IF ~last_seen.set THEN FALSE
    ELSE current - last_seen.at <= timeout_minutes * 60

\* is_responsive: time_diff.total_seconds() < timeout_minutes * 60
is_responsive(last_seen, timeout_minutes, current) ==
    IF ~last_seen.set THEN FALSE
    ELSE current - last_seen.at < timeout_minutes * 60

TimeoutMinutes == {0, 5, 10}

DeviceClockSteps == {60, 240}

MaxDeviceTime == 660

\* device.update_status(status); `online` remembers the last time the status
\* was set to "online".
UpdateStatus(status) ==
    /\ device_clock' =
          [update_status(device_clock, status, device_clock.now) EXCEPT
              !.online = IF status = "online"
                         THEN [set |-> TRUE, at |-> device_clock.now] ELSE @,
              !.asked = NotAsked]
    /\ UNCHANGED <<chatVars, httpVars, repo, gemini, agent_run, routing, health_req,
                   web_client, domain_entities, device_refs,
                   recent_run,
                   wired_run,
                   handoff_run,
                   app>>

\* device.is_responsive(timeout_minutes)
IsResponsive(timeout_minutes) ==
    /\ device_clock' = [device_clock EXCEPT
          !.asked = [made |-> TRUE, timeout_minutes |-> timeout_minutes,
                     result |-> is_responsive(device_clock.last_seen, timeout_minutes,
                                              device_clock.now)]]
    /\ UNCHANGED <<chatVars, httpVars, repo, gemini, agent_run, routing, health_req,
                   web_client, domain_entities, device_refs,
                   recent_run,
                   wired_run,
                   handoff_run,
                   app>>

\* d seconds pass.
DeviceClockTick(d) ==
    /\ device_clock.now + d <= MaxDeviceTime
    /\ device_clock' = [device_clock EXCEPT !.now = @ + d, !.asked = NotAsked]
    /\ UNCHANGED <<chatVars, httpVars, repo, gemini, agent_run, routing, health_req,
                   web_client, domain_entities, device_refs,
                   recent_run,
                   wired_run,
                   handoff_run,
                   app>>

DeviceNext ==
    \/ AddSensorData
    \/ \E status \in DeviceStatuses : UpdateStatus(status)
    \/ \E timeout_minutes \in TimeoutMinutes : IsResponsive(timeout_minutes)
    \/ \E d \in DeviceClockSteps : DeviceClockTick(d)

DeviceSpec == Init /\ [][DeviceNext]_vars

\* C22: is_responsive(timeout_minutes) is true exactly when the status was
\* set to "online" at some time and strictly less than timeout_minutes have
\* passed since the last time; a device never set online is never
\* responsive, and update_status with another status leaves last_seen as it
\* was.
C22_Step ==
    /\ device_clock'.asked.made =>
          (device_clock'.asked.result <=>
              /\ device_clock'.online.set
              /\ device_clock'.now - device_clock'.online.at
                    < device_clock'.asked.timeout_minutes * 60)
    /\ device_clock'.last_seen # device_clock.last_seen =>
          (device_clock'.status = "online" /\ device_clock'.updated_at = device_clock.now)
    /\ ~device_clock'.last_seen.set => ~device_clock'.asked.result

C22_ResponsiveWithinTimeout == [][C22_Step]_vars

\* Set online, then offline, and asked with the default timeout exactly 4
\* minutes after it was last online: responsive.
C22_Witness ==
    /\ device_clock.asked.made
    /\ device_clock.asked.timeout_minutes = 5
    /\ device_clock.asked.result
    /\ device_clock.status = "offline"
    /\ device_clock.now - device_clock.last_seen.at = 240

\* The call appended by this step is a history read that found its conversation.
HistoryRead ==
    /\ Len(calls') = Len(calls) + 1
    /\ calls'[Len(calls')].op = "get_conversation_history"
    /\ calls'[Len(calls')].outcome = "ok"

\* C23: a history read of a stored conversation with more than `limit`
\* messages leaves exactly the most recent `limit` messages in the stored
\* context, and every later operation sees only what is stored: a step either
\* appends to the stored list or cuts it from the front, so the stored list is
\* always the tail of what was appended, after the messages cut off so far.
C23_Step ==
    /\ HistoryRead =>
          LET call == calls'[Len(calls')]
              before == heap[call.context].messages
              after == heap'[call.context].messages
          IN  /\ conversations[call.conversation_id] = call.context
              /\ Len(before) > call.limit =>
                    (Len(after) = call.limit /\ after = LastOf(before, call.limit))
              /\ Len(before) <= call.limit => after = before
              /\ call.response_messages = after
    /\ \A id \in DOMAIN conversations' :
          LET stored == heap'[conversations'[id]]
          IN  IsSuffix(stored.messages, appended'[stored.conversation_id],
                       dropped'[stored.conversation_id])

C23_HistoryReadTruncatesStore == [][C23_Step]_vars

\* A history read with limit 1 cut the stored conversation, and a later read
\* with limit 50 returns only the message that was left.
C23_Witness ==
    \E t, u \in 1..Len(calls) :
        /\ t < u
        /\ calls[t].op = "get_conversation_history" /\ calls[t].outcome = "ok"
        /\ calls[u].op = "get_conversation_history" /\ calls[u].outcome = "ok"
        /\ calls[t].context = calls[u].context
        /\ calls[t].limit = 1
        /\ calls[u].limit = DEFAULT_HISTORY_LIMIT
        /\ Len(calls[u].response_messages) = 1
        /\ Len(appended[heap[calls[u].context].conversation_id]) = 2

\* ------------------------------------- get_recent_messages, called on a list directly
MaxMessages == 4

\* The message lists of up to MaxMessages messages: message k of a list has
\* id k and either role.
MessageLists ==
    UNION {[1..n -> {USER, ASSISTANT}] : n \in 0..MaxMessages}

AsMessages(roles) == [k \in 1..Len(roles) |-> [id |-> k, role |-> roles[k]]]

RecentLimits == 0..(MaxMessages + 1)

\* domain/entities/conversation.py, Conversation.get_recent_messages:
\* self.messages[-limit:] if len(self.messages) > limit else self.messages
entity_get_recent_messages(messages, limit) ==
    IF Len(messages) > limit THEN SliceFromMinus(messages, limit) ELSE messages

\* context.get_recent_messages(limit) and conversation.get_recent_messages(limit)
\* on the same message list.
GetRecentMessages(roles, limit) ==
    /\ LET messages == AsMessages(roles)
       IN  recent_run' =
              [made |-> TRUE, messages |-> messages, limit |-> limit,
               returned |-> SliceFromMinus(messages, limit),
               entity_returned |-> entity_get_recent_messages(messages, limit),
               messages_after |-> messages]
    /\ UNCHANGED <<chatVars, httpVars, repo, gemini, agent_run, routing, health_req,
                   web_client, domain_entities, device_refs, device_clock,
                   wired_run,
                   handoff_run,
                   app>>

RecentNext ==
    \E roles \in MessageLists, limit \in RecentLimits : GetRecentMessages(roles, limit)

RecentSpec == Init /\ [][RecentNext]_vars

\* C24: for every N >= 0 and every list of n messages, get_recent_messages(N)
\* of the context and of the Conversation entity return the last min(N, n)
\* messages in their order (the empty list for N = 0) and leave the list as
\* it was.
C24_LastMinMessages ==
    recent_run.made =>
        LET n == Len(recent_run.messages)
            expected == SubSeq(recent_run.messages,
                               n - Min(recent_run.limit, n) + 1, n)
        IN  /\ recent_run.returned = expected
            /\ recent_run.entity_returned = expected
            /\ recent_run.messages_after = recent_run.messages

\* ------------------------- the web search agent on GeminiClient (app/container.py)
\* What a caller of GeminiClient.generate_response sees: the exception, or
\* the content of the LLMResponse (the fallback text included).
AsLlmPortOutcome(generated) ==
    IF generated.raised THEN [kind |-> "raise", content |-> ""]
    ELSE [kind |-> "text", content |-> generated.response.content]

\* WebSearchAgent.process_message with llm_client = a fresh GeminiClient:
\* init_ok and the SDK outcomes of the query call and of the answer call.
WiredWebSearch(content, init_ok, sdk_query, search_port, sdk_answer) ==
    /\ LET query_call == generate_response(None, init_ok, sdk_query)
           answer_call == generate_response(query_call.client, init_ok, sdk_answer)
           search_query == _extract_search_query(content, AsLlmPortOutcome(query_call))
           response == WebSearchProcessMessage(content, AsLlmPortOutcome(query_call),
                                               search_port, AsLlmPortOutcome(answer_call))
       IN  wired_run' =
              [made |-> TRUE, content |-> content,
               llm_failed |-> query_call.raised \/ query_call.response.error,
               llm_raised |-> query_call.raised,
               searched_for |-> search_query.value,
               search_query |-> search_query.value,
               response_content |-> response.content]
    /\ UNCHANGED <<chatVars, httpVars, repo, gemini, agent_run, routing, health_req,
                   web_client, domain_entities, device_refs, device_clock, recent_run,
                   handoff_run,
                   app>>

WiredNext ==
    \E content \in AgentContents, init_ok \in BOOLEAN, sdk_query \in SdkOutcomes,
       search_port \in SearchPortOutcomes, sdk_answer \in SdkOutcomes :
          WiredWebSearch(content, init_ok, sdk_query, search_port, sdk_answer)

WiredSpec == Init /\ [][WiredNext]_vars

\* C25: whenever the LLM call that distils the search query fails, the query
\* passed to the web-search port and recorded as search_query in the response
\* metadata is the raw text of the user's message.
C25_RawTextOnLlmFailure ==
    (wired_run.made /\ wired_run.llm_failed) =>
        /\ wired_run.searched_for = wired_run.content
        /\ wired_run.search_query = wired_run.content

Specialists == {LOCAL_ASSISTANT, WEB_SEARCH}

\* C26: the current agent type of a conversation is always one of the three
\* agent types, and once it is local_assistant or web_search no step changes
\* it again.
C26_Step ==
    /\ \A r \in 1..Len(heap') : heap'[r].current_agent_type \in AgentType
    /\ \A r \in 1..Len(heap) :
          heap[r].current_agent_type \in Specialists =>
              heap'[r].current_agent_type = heap[r].current_agent_type

C26_SpecialistIsAbsorbing == [][C26_Step]_vars

\* The step completes a turn on context r that the coordinator handled.
CoordinatorTurnReturns(r) ==
    \E t \in 1..Len(calls) :
        /\ calls[t].pc = "await_agent" /\ calls'[t].pc = "done"
        /\ calls[t].context = r
        /\ calls[t].agent = COORDINATOR

\* C26, amended: the current agent type is always one of the three agent
\* types and never returns to the coordinator; it changes only when a turn
\* handled by the coordinator returns, so a turn handled by a specialist
\* never changes it, and a specialist changes to the other one only through
\* a coordinator turn that was begun before the conversation was handed over
\* and returns after it.
C26_AmendedStep ==
    /\ \A r \in 1..Len(heap') : heap'[r].current_agent_type \in AgentType
    /\ \A r \in 1..Len(heap) :
          /\ heap[r].current_agent_type \in Specialists =>
                heap'[r].current_agent_type \in Specialists
          /\ heap'[r].current_agent_type # heap[r].current_agent_type =>
                CoordinatorTurnReturns(r)

C26_OnlyCoordinatorTurnsSwitch == [][C26_AmendedStep]_vars

\* Two coordinator turns on one conversation overlapped: the first to return
\* handed it to the local assistant, the second moved it to web search.
C26_Witness ==
    \E t, u \in 1..Len(calls) :
        /\ CompletedTurn(t) /\ CompletedTurn(u)
        /\ calls[t].context = calls[u].context
        /\ calls[t].agent = COORDINATOR /\ calls[u].agent = COORDINATOR
        /\ calls[t].response_agent_type = LOCAL_ASSISTANT
        /\ calls[u].response_agent_type = WEB_SEARCH
        /\ calls[t].assistant_message.id < calls[u].assistant_message.id
        /\ heap[calls[u].context].current_agent_type = WEB_SEARCH

\* ------------------------------- ConversationManager over an arbitrary agent registry
\* The registries the use case is constructed over: empty, the coordinator
\* alone, all three agents.
Registries == {{}, {COORDINATOR}, AgentType}

\* ConversationManager(conversation_repo, agent_registry, llm_client) with a
\* registry that holds the agents of `registry`.
NewConversationManager(registry) ==
    /\ ~started
    /\ agents = {}
    /\ agents' = registry
    /\ started' = TRUE
    /\ UNCHANGED <<heap, conversations, calls, uuids, appended, dropped>>
    /\ UNCHANGED httpVars
    /\ UNCHANGED unitVars
    /\ UNCHANGED repo

ManagerNext ==
    \/ \E registry \in Registries : NewConversationManager(registry)
    \/ \E content \in Contents : ProcessMessageNew(content)
    \/ \E content \in Contents, cid \in ClientIds : ProcessMessageExisting(content, cid)
    \/ \E content \in Contents, cid \in ClientIds : ProcessMessageNotFound(content, cid)
    \/ \E t \in 1..Len(calls), llm_ok \in BOOLEAN : ProcessMessageReturn(t, llm_ok)
    \/ \E cid \in ClientIds, limit \in Limits : GetConversationHistory(cid, limit)
    \/ \E cid \in ClientIds : EndConversation(cid)

ManagerSpec == Init /\ [][ManagerNext]_vars

\* The step appends a process_message call that failed.
FailedProcessMessage ==
    /\ Len(calls') = Len(calls) + 1
    /\ calls'[Len(calls')].op = "process_message"
    /\ calls'[Len(calls')].outcome \in {"ValueError_not_found", "ValueError_no_agent"}

\* C27: a process_message call that fails (conversation not found, or no
\* agent for the context's current agent type) leaves the conversation store
\* as it was: no new conversation is stored and no stored conversation has a
\* new message.
C27_Step ==
    FailedProcessMessage =>
        /\ DOMAIN conversations' = DOMAIN conversations
        /\ \A id \in DOMAIN conversations :
              heap'[conversations'[id]] = heap[conversations[id]]

C27_FailedCallLeavesStore == [][C27_Step]_vars

\* The step begins a turn on the stored context r, or returns one.
TurnBegins(r) ==
    /\ Len(calls') = Len(calls) + 1
    /\ calls'[Len(calls')].op = "process_message"
    /\ calls'[Len(calls')].context = r

TurnReturns(r) ==
    \E t \in 1..Len(calls) :
        /\ calls[t].pc = "await_agent" /\ calls'[t].pc = "done"
        /\ calls[t].context = r

\* C28: a turn leaves the lifecycle state of its conversation as it found
\* it, hand-off or not; every stored conversation is active or completed and
\* completed is never left; a turn on a completed conversation still reaches
\* the agent and appends the user message and then the assistant message.
C28_Step ==
    /\ \A id \in DOMAIN conversations' :
          heap'[conversations'[id]].state \in {ACTIVE, COMPLETED}
    /\ \A r \in 1..Len(heap) :
          /\ heap[r].state = COMPLETED => heap'[r].state = COMPLETED
          /\ (TurnBegins(r) \/ TurnReturns(r)) =>
                /\ heap'[r].state = heap[r].state
                /\ Len(heap'[r].messages) = Len(heap[r].messages) + 1
          /\ TurnBegins(r) =>
                /\ calls'[Len(calls')].pc = "await_agent"
                /\ heap'[r].messages[Len(heap'[r].messages)].role = USER
          /\ TurnReturns(r) =>
                heap'[r].messages[Len(heap'[r].messages)].role = ASSISTANT

C28_TurnsIgnoreLifecycleState == [][C28_Step]_vars

\* A conversation was ended and a later turn on it completed with a hand-off:
\* it is still completed and holds the turn's two messages.
C28_Witness ==
    \E e, t \in 1..Len(calls) :
        /\ e < t
        /\ calls[e].op = "end_conversation" /\ calls[e].outcome = "True"
        /\ CompletedTurn(t)
        /\ calls[t].context = calls[e].context
        /\ calls[t].user_message.id > 2
        /\ calls[t].response_agent_type = WEB_SEARCH
        /\ heap[calls[t].context].state = COMPLETED
        /\ Pos(heap[calls[t].context].messages, calls[t].user_message.id) > 0
        /\ Pos(heap[calls[t].context].messages, calls[t].assistant_message.id) > 0

\* The timestamps the limiter holds for a client key.
RequestsOf(reqs, client_ip) ==
    IF client_ip \in DOMAIN reqs THEN reqs[client_ip] ELSE << >>

\* C29: a request rejected with 429 adds no timestamp for its client; a
\* non-exempt request of a client with fewer than L accepted requests within
\* the last 60 seconds is accepted and recorded, however many of its requests
\* were rejected before; and a request changes the timestamps of no other
\* client.
C29_Step ==
    NewRequest =>
        LET client_ip == http'.client_ip
        IN  /\ http'.outcome.status = 429 =>
                  /\ accepted' = accepted
                  /\ \A k \in 1..Len(RequestsOf(requests', client_ip)) :
                        \E j \in 1..Len(RequestsOf(requests, client_ip)) :
                            requests'[client_ip][k] = requests[client_ip][j]
                  /\ Len(RequestsOf(requests', client_ip))
                        = CountInWindow(AcceptedOf(client_ip), now)
            /\ (http'.path \notin ExemptPaths
                /\ CountInWindow(AcceptedOf(client_ip), now) < max_requests) =>
                  /\ http'.outcome.status # 429
                  /\ RequestsOf(requests', client_ip)[Len(requests'[client_ip])] = now
            /\ \A other \in (DOMAIN requests \cup DOMAIN requests') \ {client_ip} :
                  RequestsOf(requests', other) = RequestsOf(requests, other)

C29_OnlyAcceptedRequestsRecorded == [][C29_Step]_vars

\* At limit 1 the client's request at time 0 was accepted and its request at
\* time 30 has just been rejected: the limiter holds the one timestamp 0.
C29_Witness ==
    /\ max_requests = 1
    /\ now = 30
    /\ http.outcome.status = 429
    /\ RequestsOf(requests, http.client_ip) = <<0>>
    /\ AcceptedOf(http.client_ip) = <<0>>

\* ------------------------------------------- hand-off and acceptance tests
\* LocalAssistantAgent.can_handle_request
LocalAssistant_can_handle_request(content) ==
    PhrasesIn(content) \cap local_assistant_keywords # {}

\* WebSearchAgent.can_handle_request
WebSearch_can_handle_request(content) ==
    PhrasesIn(content) \cap web_search_agent_keywords # {}

\* The coordinator's decision and both specialists' acceptance tests on one
\* message.
CompareHandOff(content) ==
    /\ handoff_run' =
          [made |-> TRUE, content |-> content,
           target_agent |-> should_switch_agent(content),
           local_can_handle |-> LocalAssistant_can_handle_request(content),
           web_can_handle |-> WebSearch_can_handle_request(content)]
    /\ UNCHANGED <<chatVars, httpVars, repo, gemini, agent_run, routing,
                   health_req, web_client, domain_entities, device_refs,
                   device_clock, recent_run, wired_run,
                   app>>

HandOffNext == \E content \in HandOffContents : CompareHandOff(content)

HandOffSpec == Init /\ [][HandOffNext]_vars

\* C30: whenever should_switch_agent selects web_search the web search
\* agent's can_handle_request accepts the message, and whenever it selects
\* local_assistant the local assistant's can_handle_request accepts it.
C30_HandOffAgreesWithAcceptance ==
    /\ handoff_run.target_agent = WEB_SEARCH => handoff_run.web_can_handle
    /\ handoff_run.target_agent = LOCAL_ASSISTANT => handoff_run.local_can_handle

====
